---- MODULE Spec2Model ----
(***************************************************************************)
(* A model of laoshi.py: the vocabulary stores (vocabulary.csv and         *)
(* sentences.csv), the audio cache on disk, the startup sweep, interactive *)
(* creation of entries and the two drill sessions.                         *)
(*                                                                         *)
(* Text (keys, file names, typed fields) is a sequence of character        *)
(* tokens.  The strings the program itself supplies ("_default", "_slow",  *)
(* "_slower", "mp3", "unknown_pinyin") are single tokens; the typed        *)
(* alphabet below holds none of their letters, so two token sequences are  *)
(* equal exactly when the strings they stand for are equal.                *)
(***************************************************************************)
EXTENDS Integers, Sequences, FiniteSets, TLC

VARIABLES
    csv,     \* kind -> the kind's store file (vocabulary.csv, sentences.csv)
    store,   \* kind -> the records the kind's store file loads as
    disk,    \* path -> content, for every file that exists under audio/
    cr,      \* locals of update_word/sentence_vocab_interactive
    sw,      \* locals of ensure_(sentence_)audio_files_exist
    dr,      \* locals of run_dictation_practice / run_dictation_pro
    st,      \* what was asked of the store functions when they are run alone
    mn       \* locals of main

vars == <<csv, store, disk, cr, sw, dr, st, mn>>

----------------------------------------------------------------------------
(* Bounds of the model *)

MaxStore == 2       \* rows in a store file at the start
MaxEntries == 2     \* entries typed on one input line
MaxTyped == 2       \* entries typed in one run of the model
MaxRuns == 2        \* program starts (sweeps of both stores) in one run of the model
MaxFaults == 2      \* synthesis and write failures in one sweep of both stores
MaxShuffles == 2    \* shuffles in one drill session
MaxSaves == 3       \* calls of save_*_entry when the store functions are run alone

----------------------------------------------------------------------------
(* Configuration, laoshi.py lines 26-48 *)

DEFAULT_KOKORO_SPEED == 10       \* 1.0, in tenths
SLOWER_KOKORO_SPEED == 7         \* 0.7
EXTRA_SLOW_KOKORO_SPEED == 5     \* 0.5

DEFAULT_SPEED_SUFFIX == <<"_default">>
SLOWER_SPEED_SUFFIX == <<"_slow">>
EXTRA_SLOW_SPEED_SUFFIX == <<"_slower">>

SPEED_CONFIGURATIONS ==
    << [value |-> EXTRA_SLOW_KOKORO_SPEED, suffix |-> EXTRA_SLOW_SPEED_SUFFIX],
       [value |-> SLOWER_KOKORO_SPEED, suffix |-> SLOWER_SPEED_SUFFIX],
       [value |-> DEFAULT_KOKORO_SPEED, suffix |-> DEFAULT_SPEED_SUFFIX] >>

\* The dict built by the sweep and by creation (insertion order is iteration
\* order); args.kokoro_speed is left at its default.
speeds_to_generate ==
    << [suffix |-> DEFAULT_SPEED_SUFFIX, value |-> DEFAULT_KOKORO_SPEED],
       [suffix |-> SLOWER_SPEED_SUFFIX, value |-> SLOWER_KOKORO_SPEED],
       [suffix |-> EXTRA_SLOW_SPEED_SUFFIX, value |-> EXTRA_SLOW_KOKORO_SPEED] >>

Variants == 1..Len(speeds_to_generate)

Kinds == {"word", "sentence"}

\* AUDIO_CHAR_DIR for words, AUDIO_PRO_DIR for sentences
AudioDir(kind) == IF kind = "word" THEN "audio/characters" ELSE "audio/pro"

\* VOCAB_FIELDS has 4 names, SENTENCES_FIELDS has 2: the parts of a typed entry
FieldCount(kind) == IF kind = "word" THEN 4 ELSE 2

----------------------------------------------------------------------------
(* Text *)

NoneVal == <<"None">>                 \* Python's None, as a field value

Falsy(x) == x = NoneVal \/ x = <<>>   \* `not x` for None and ""

Letters == {"a", "b", "p", "s", "w"}
Digit == <<"0", "1", "2", "3", "4", "5", "6", "7", "8", "9">>
DigitChars == {Digit[i] : i \in 1..Len(Digit)}
Whitespace == {" "}

\* str(counter) of the f-strings that build a numbered name
RECURSIVE DecStr(_)
DecStr(n) ==
    IF n < 10 THEN <<Digit[n + 1]>>
    ELSE DecStr(n \div 10) \o <<Digit[(n % 10) + 1]>>

\* str.rstrip()
RECURSIVE rstrip(_)
rstrip(t) ==
    IF t # <<>> /\ t[Len(t)] \in Whitespace
    THEN rstrip(SubSeq(t, 1, Len(t) - 1))
    ELSE t

KeepChar(c) == c \in Letters \/ c \in DigitChars \/ c \in {"_", "-"}

\* sanitize_filename: spaces become "_", then only alphanumerics, "_" and "-"
\* are kept
sanitize_filename(name) ==
    LET replaced == [i \in 1..Len(name) |-> IF name[i] = " " THEN "_" ELSE name[i]]
    IN rstrip(SelectSeq(replaced, KeepChar))

\* Index of the last "." of t, 0 when there is none
LastDot(t) ==
    LET dots == {i \in 1..Len(t) : t[i] = "."}
    IN IF dots = {} THEN 0 ELSE CHOOSE i \in dots : \A j \in dots : j <= i

\* os.path.splitext on a name without directory separators: the extension
\* starts at the last dot, unless only dots precede it
splitext(t) ==
    LET d == LastDot(t)
    IN IF d = 0 \/ \A j \in 1..(d - 1) : t[j] = "."
       THEN [root |-> t, ext |-> <<>>]
       ELSE [root |-> SubSeq(t, 1, d - 1), ext |-> SubSeq(t, d, Len(t))]

Mp3 == <<".", "mp3">>

\* base_name_no_ext, ext = os.path.splitext(name); if not ext: ext = ".mp3"
ExtOrMp3(ext) == IF ext = <<>> THEN Mp3 ELSE ext

\* f"{base_name_no_ext}{suffix}{ext}" joined to the kind's directory
VariantPath(kind, name, v) ==
    LET se == splitext(name)
    IN [dir |-> AudioDir(kind),
        file |-> se.root \o speeds_to_generate[v].suffix \o ExtOrMp3(se.ext)]

VariantPaths(kind, name) == {VariantPath(kind, name, v) : v \in Variants}

Exists(path) == path \in DOMAIN disk

\* The file system after `path` has been written with `content`
WriteFile(fs, path, content) ==
    [p \in DOMAIN fs \cup {path} |-> IF p = path THEN content ELSE fs[p]]

\* The file system after the files `paths` have been removed
RemoveFiles(fs, paths) == [p \in DOMAIN fs \ paths |-> fs[p]]

Range(s) == {s[i] : i \in 1..Len(s)}

----------------------------------------------------------------------------
(* Vocabulary store *)

KeyOf(kind, r) == IF kind = "word" THEN r.character ELSE r.sentence_text

\* A store file is [exists, lines]: whether the file is there, and its
\* lines, the header included.  A line is the sequence of its cells, a cell
\* is text; a line without cells is a blank line.

\* VOCAB_FIELDS and SENTENCES_FIELDS, each name one token
Fields(kind) ==
    IF kind = "word"
    THEN <<"character", "pinyin", "character_meaning", "audio_file_name">>
    ELSE <<"sentence_text", "audio_file_name">>

\* The line writer.writeheader() writes
Header(kind) == [i \in 1..Len(Fields(kind)) |-> <<Fields(kind)[i]>>]

NoFile == [exists |-> FALSE, lines |-> <<>>]

\* A byte that is not UTF-8: reading a line that holds one raises
\* UnicodeDecodeError
InvalidByte == "0xFF"

Decodable(line) == \A i \in 1..Len(line) : InvalidByte \notin Range(line[i])

\* row.get(field) on a row of csv.DictReader: dict(zip(fieldnames, row)),
\* and None for the names the row is too short for
Get(names, row, field) ==
    LET at == {j \in 1..Len(names) : names[j] = <<field>>}
    IN IF at = {} THEN NoneVal
       ELSE LET j == CHOOSE x \in at : \A y \in at : y <= x
            IN IF j <= Len(row) THEN row[j] ELSE NoneVal

\* entry = {field: row.get(field) for field in VOCAB_FIELDS}
RecordOf(kind, names, row) ==
    IF kind = "word"
    THEN [character |-> Get(names, row, "character"),
          pinyin |-> Get(names, row, "pinyin"),
          character_meaning |-> Get(names, row, "character_meaning"),
          audio_file_name |-> Get(names, row, "audio_file_name")]
    ELSE [sentence_text |-> Get(names, row, "sentence_text"),
          audio_file_name |-> Get(names, row, "audio_file_name")]

NotBlank(line) == line # <<>>

\* A loader that drops the rows that lack a field
load_rows_DropsShortRows(kind, file) ==
    IF ~file.exists \/ file.lines = <<>> THEN <<>>
    ELSE IF \E i \in 1..Len(file.lines) : ~Decodable(file.lines[i]) THEN <<>>
    ELSE LET names == file.lines[1]
             full(line) == Len(line) >= Len(names)
             data == SelectSeq(Tail(file.lines), full)
         IN [i \in 1..Len(data) |-> RecordOf(kind, names, data[i])]

\* load_vocab / load_sentences on a store file: [] when the file does not
\* exist; [] when reading it raises (the exception is caught and reported);
\* else the first line gives the field names and every later line that is
\* not blank gives one record, in file order
load_rows(kind, file) ==
    IF ~file.exists THEN <<>>
    ELSE IF \E i \in 1..Len(file.lines) : ~Decodable(file.lines[i]) THEN <<>>
    ELSE IF file.lines = <<>> THEN <<>>
    ELSE LET names == file.lines[1]
             data == SelectSeq(Tail(file.lines), NotBlank)
         IN [i \in 1..Len(data) |-> RecordOf(kind, names, data[i])]

\* A load that opens the file for writing
FileAfterLoad_Truncates(file) ==
    IF file.exists THEN [exists |-> TRUE, lines |-> <<>>] ELSE file

\* The store file after load_vocab / load_sentences: `open(VOCAB_FILE,
\* mode='r', ...)`, the file is read and nothing is written to it
FileAfterLoad(file) == file

\* kind -> the records the store files `files` load as
Loaded(files) == [kind \in Kinds |-> load_rows(kind, files[kind])]

\* load_vocab(args.debug) / load_sentences(args.debug)
load(kind) == load_rows(kind, csv[kind])

\* The row save_vocab_entry / save_sentence_entry writes
NewRecord(kind, key, pinyin, meaning, name) ==
    IF kind = "word"
    THEN [character |-> key, pinyin |-> pinyin, character_meaning |-> meaning,
          audio_file_name |-> name]
    ELSE [sentence_text |-> key, audio_file_name |-> name]

\* The cell csv.writer writes for a value: None becomes the empty string
Cell(value) == IF value = NoneVal THEN <<>> ELSE value

\* The line writer.writerow(...) writes: the values in field order
RowOf(kind, rec) ==
    IF kind = "word"
    THEN <<Cell(rec.character), Cell(rec.pinyin), Cell(rec.character_meaning),
           Cell(rec.audio_file_name)>>
    ELSE <<Cell(rec.sentence_text), Cell(rec.audio_file_name)>>

\* A save that writes the header line every time
NeedsHeader_Always(file) == TRUE

\* `if not file_exists or os.path.getsize(VOCAB_FILE) == 0`, file_exists as
\* it was before the file was opened for appending
NeedsHeader(file) == ~file.exists \/ file.lines = <<>>

\* How save_vocab_entry / save_sentence_entry can end: open(..., 'a') raises;
\* a write raises with nothing written, or with the header line written; or
\* both lines are written.  Every exception is caught and reported.
SaveOutcomes == {"ok", "open_fails", "write_fails", "row_fails"}

\* The store file after save_vocab_entry / save_sentence_entry; lines are
\* written whole
save_entry(kind, file, rec, outcome) ==
    LET head == IF NeedsHeader(file) THEN <<Header(kind)>> ELSE <<>>
    IN CASE outcome = "open_fails" -> file
         [] outcome = "write_fails" -> [exists |-> TRUE, lines |-> file.lines]
         [] outcome = "row_fails" -> [exists |-> TRUE, lines |-> file.lines \o head]
         [] outcome = "ok" ->
               [exists |-> TRUE, lines |-> file.lines \o head \o <<RowOf(kind, rec)>>]

----------------------------------------------------------------------------
(* Speech synthesis client *)

\* What generate_tts_audio can return for one request: response.content (the
\* audio, or no bytes at all) or None
Audio(text, speed) == [tag |-> "audio", text |-> text, speed |-> speed]
EmptyBytes == [tag |-> "empty"]
NoAudio == [tag |-> "none"]

generate_tts_audio(text, speed) == {Audio(text, speed), EmptyBytes, NoAudio}

\* `if audio_data:`
Truthy(data) == data.tag = "audio"

\* A client that sends the request again when it got no audio
RequestsMade_RetryOnFailure(data) == IF Truthy(data) THEN 1 ELSE 2

\* The requests.post calls one call of generate_tts_audio has made when it
\* returns data: the one at the top of its try block, on every path
RequestsMade(data) == 1

\* Content of a file that open(path, "wb") created or emptied and whose
\* write raised
Truncated == [tag |-> "truncated"]

\* Content of a file that was on disk before the model starts
Orig == [tag |-> "orig"]

\* How open() + write() of one file can end
WriteOutcomes == {"ok", "open_fails", "write_fails"}

----------------------------------------------------------------------------
(* Interactive creation: update_word_vocab_interactive and                 *)
(* update_sentence_vocab_interactive                                       *)

\* pc is the place in the function; left counts the entries of the input
\* line not yet taken by the for loop, typed the entries taken so far; last
\* records how the latest entry ended.  key, pinyin, meaning, name and vi
\* keep the values of the latest entry that reached the generation loop;
\* calls counts, for each variant, the requests made for the entry at hand;
\* before holds the files on disk when the generation loop of the entry at
\* hand was entered.
CrIdle ==
    [pc |-> "menu", kind |-> "word", existing |-> <<>>, left |-> 0,
     key |-> <<>>, pinyin |-> <<>>, meaning |-> <<>>, base |-> <<>>, pin |-> <<>>, name |-> <<>>, counter |-> 0,
     vi |-> 0, audio |-> NoAudio, generated |-> <<>>, ok |-> TRUE, typed |-> 0,
     last |-> "none", calls |-> [v \in Variants |-> 0], before |-> <<>>]

\* The entries a user types, already split at ";" and "|" and stripped
TypedIdeas == {<<"a">>, <<"a", "!">>}
TypedPinyin == {<<"p">>, <<>>}
TypedMeaning == <<"b">>

TypedEntries(kind) ==
    IF kind = "word"
    THEN {<< <<"w", d>>, <<"p">>, TypedMeaning, <<"a">> >> : d \in {"0", "1", "2"}}
         \cup {<< <<"w", "2">>, p, TypedMeaning, i>> : p \in TypedPinyin, i \in TypedIdeas}
         \cup {<< <<"w", "1">>, <<"p">> >>}
    ELSE {<< <<"s", d>>, <<"a">> >> : d \in {"0", "1", "2"}}
         \cup {<< <<"s", "2">>, i>> : i \in TypedIdeas}
         \cup {<< <<"s", "1">> >>}

\* Entry of one of the two update functions: the store is loaded once
StartUpdate(kind) ==
    /\ cr.pc = "menu"
    /\ cr' = [cr EXCEPT !.pc = "prompt", !.kind = kind, !.existing = load(kind),
                        !.last = "none"]
    /\ UNCHANGED <<csv, store, disk, sw, dr, st, mn>>

\* Prompt.ask returns a line with n entries; what each entry holds is drawn
\* when the for loop takes it
ReadLine ==
    /\ cr.pc = "prompt"
    /\ \E n \in 1..MaxEntries :
          /\ cr.typed + n <= MaxTyped
          /\ cr' = [cr EXCEPT !.pc = "next", !.left = n]
    /\ UNCHANGED <<csv, store, disk, sw, dr, st, mn>>

\* "done", "exit" or "quit" typed at the prompt
LeaveUpdate ==
    /\ cr.pc = "prompt"
    /\ cr' = [CrIdle EXCEPT !.typed = cr.typed]
    /\ UNCHANGED <<csv, store, disk, sw, dr, st, mn>>

\* EOF or KeyboardInterrupt at the prompt: caught around Prompt.ask, the
\* function returns to the update menu
InterruptPrompt ==
    /\ cr.pc = "prompt"
    /\ cr' = [CrIdle EXCEPT !.typed = cr.typed, !.last = "cancelled"]
    /\ UNCHANGED <<csv, store, disk, sw, dr, st, mn>>

\* The values of the entry before are overwritten when the for loop takes
\* the next entry or ends
NextEntry(c) ==
    [c EXCEPT !.key = <<>>, !.pinyin = <<>>, !.meaning = <<>>, !.name = <<>>,
              !.vi = 0, !.ok = TRUE, !.last = "none"]

\* The entries of the line are used up: back to the prompt
LineDone ==
    /\ cr.pc = "next"
    /\ cr.left = 0
    /\ cr' = [NextEntry(cr) EXCEPT !.pc = "prompt"]
    /\ UNCHANGED <<csv, store, disk, sw, dr, st, mn>>

\* A duplicate check that finds nothing
is_duplicate_Never(kind, existing, key) == FALSE

\* any(voc_entry.get('character') == char for voc_entry in existing_vocab)
is_duplicate(kind, existing, key) ==
    \E i \in 1..Len(existing) : KeyOf(kind, existing[i]) = key

\* pinyin_sanitized (words only)
PinyinSanitized(pinyin) ==
    IF pinyin # <<>> THEN sanitize_filename(pinyin) ELSE <<"unknown_pinyin">>

\* A probing loop that numbers its candidates from 2
NumberedName_FromTwo(kind, base, pin, counter) ==
    IF kind = "word"
    THEN base \o <<"_">> \o pin \o <<"_">> \o DecStr(counter + 1) \o Mp3
    ELSE base \o <<"_">> \o DecStr(counter + 1) \o Mp3

\* The numbered candidate the probing loop tries for `counter`
NumberedName(kind, base, pin, counter) ==
    IF kind = "word"
    THEN base \o <<"_">> \o pin \o <<"_">> \o DecStr(counter) \o Mp3
    ELSE base \o <<"_">> \o DecStr(counter) \o Mp3

current_audio_filenames_in_csv(existing) ==
    {existing[i].audio_file_name : i \in 1..Len(existing)}

\* Top of the `for entry_str in entries_on_line` body: the format check, the
\* duplicate check, and the first candidate name
BeginEntry ==
    /\ cr.pc = "next"
    /\ cr.left > 0
    /\ \E parts \in TypedEntries(cr.kind) :
          LET taken == [NextEntry(cr) EXCEPT !.left = @ - 1, !.typed = @ + 1]
          IN IF Len(parts) # FieldCount(cr.kind)
             THEN cr' = [taken EXCEPT !.last = "invalid"]
             ELSE IF is_duplicate(cr.kind, cr.existing, parts[1])
             THEN cr' = [taken EXCEPT !.last = "duplicate"]
             ELSE LET base == sanitize_filename(parts[Len(parts)])
                  IN cr' = [taken EXCEPT !.pc = "probe", !.key = parts[1],
                              !.pinyin = IF cr.kind = "word" THEN parts[2] ELSE <<>>,
                              !.meaning = IF cr.kind = "word" THEN parts[3] ELSE <<>>,
                              !.base = base,
                              !.pin = IF cr.kind = "word"
                                      THEN PinyinSanitized(parts[2]) ELSE <<>>,
                              !.name = base \o Mp3, !.counter = 1,
                              !.last = "running"]
    /\ UNCHANGED <<csv, store, disk, sw, dr, st, mn>>

\* One iteration of `while final_base_audio_filename_for_csv in
\* current_audio_filenames_in_csv`
ProbeStep ==
    /\ cr.pc = "probe"
    /\ cr.name \in current_audio_filenames_in_csv(cr.existing)
    /\ cr' = [cr EXCEPT !.name = NumberedName(cr.kind, cr.base, cr.pin, cr.counter),
                        !.counter = @ + 1]
    /\ UNCHANGED <<csv, store, disk, sw, dr, st, mn>>

\* The program has ended while an entry was being created: kind, key and
\* name tell which entry it was
Exited(c) ==
    [CrIdle EXCEPT !.pc = "exited", !.kind = c.kind, !.key = c.key, !.name = c.name,
                   !.typed = c.typed, !.last = "interrupted"]

\* An exception no function catches reaches the handler around main(),
\* which reports it and calls sys.exit(1)
Crashed(c) == [Exited(c) EXCEPT !.last = "crashed"]

\* The loop condition is false: the stored name is fixed, the flags of the
\* generation loop are set and os.makedirs(AUDIO_CHAR_DIR, exist_ok=True)
\* (AUDIO_PRO_DIR for sentences) is called, outside any try: when it raises,
\* the program ends
ProbeDone ==
    /\ cr.pc = "probe"
    /\ cr.name \notin current_audio_filenames_in_csv(cr.existing)
    /\ \E made \in BOOLEAN :
          cr' = IF made
                THEN [cr EXCEPT !.pc = "synth", !.vi = 1, !.generated = <<>>,
                                !.ok = TRUE, !.calls = [v \in Variants |-> 0],
                                !.before = disk]
                ELSE Crashed(cr)
    /\ UNCHANGED <<csv, store, disk, sw, dr, st, mn>>

\* A generation loop that clears the flag and goes on with the next variant
FailVariant_GoesOn(c, why) ==
    [c EXCEPT !.ok = FALSE, !.last = why,
              !.vi = IF c.vi < Len(speeds_to_generate) THEN @ + 1 ELSE @,
              !.pc = IF c.vi < Len(speeds_to_generate) THEN "synth" ELSE "finish"]

\* What the generation loop does when a variant got no audio or could not be
\* saved: the flag is cleared and the loop is left
FailVariant(c, why) == [c EXCEPT !.pc = "finish", !.ok = FALSE, !.last = why]

\* generate_tts_audio for variant vi
Synthesize ==
    /\ cr.pc = "synth"
    /\ \E data \in generate_tts_audio(cr.key, speeds_to_generate[cr.vi].value) :
          LET called == [cr EXCEPT !.calls[cr.vi] = @ + RequestsMade(data)]
          IN IF Truthy(data)
             THEN cr' = [called EXCEPT !.pc = "save", !.audio = data]
             ELSE cr' = FailVariant(called, "synth_failed")
    /\ UNCHANGED <<csv, store, disk, sw, dr, st, mn>>

\* KeyboardInterrupt while requests.post of a synthesis call is waiting:
\* generate_tts_audio catches RequestException only and the update functions
\* guard only their prompt, so the exception reaches the handler around
\* main(), which prints a message and calls sys.exit(0)
InterruptSynthesis ==
    /\ cr.pc = "synth"
    /\ cr' = Exited(cr)
    /\ UNCHANGED <<csv, store, disk, sw, dr, st, mn>>

\* The paths the generation loop records after a variant was written
AfterWrite(generated, path) == Append(generated, path)

\* with open(audio_filepath, "wb") as f: f.write(audio_data)
Save ==
    /\ cr.pc = "save"
    /\ LET path == VariantPath(cr.kind, cr.name, cr.vi)
       IN \E w \in WriteOutcomes :
           CASE w = "ok" ->
                  /\ disk' = WriteFile(disk, path, cr.audio)
                  /\ cr' = [cr EXCEPT
                        !.generated = AfterWrite(cr.generated, path),
                        !.vi = IF cr.vi < Len(speeds_to_generate) THEN @ + 1 ELSE @,
                        !.pc = IF cr.vi < Len(speeds_to_generate)
                               THEN "synth" ELSE "finish"]
             [] w = "open_fails" ->
                  /\ disk' = disk
                  /\ cr' = FailVariant(cr, "open_failed")
             [] w = "write_fails" ->
                  /\ disk' = WriteFile(disk, path, Truncated)
                  /\ cr' = FailVariant(cr, "write_failed")
    /\ UNCHANGED <<csv, store, sw, dr, st, mn>>

\* The end of the for loop's body: the locals no later statement reads are
\* cleared
Finished(c) == [c EXCEPT !.pc = "next", !.base = <<>>, !.pin = <<>>,
                         !.counter = 0, !.audio = NoAudio, !.generated = <<>>,
                         !.calls = [v \in Variants |-> 0], !.before = <<>>]

\* An append that does not look at the flag
MayAppend_Always(c) == TRUE

\* `if all_speeds_generated_successfully:`
MayAppend(c) == c.ok

\* save_*_entry appends the row (or reports that it could not) and the entry
\* joins the list in memory.  A save that fails after the file was opened
\* leaves a file that loads as the same records as one that could not be
\* opened; these outcomes are followed in SpecStore.
AppendEntry ==
    /\ cr.pc = "finish"
    /\ MayAppend(cr)
    /\ LET rec == NewRecord(cr.kind, cr.key, cr.pinyin, cr.meaning, cr.name)
       IN /\ \E outcome \in {"ok", "open_fails"} :
                /\ csv' = [csv EXCEPT ![cr.kind] = save_entry(cr.kind, @, rec, outcome)]
                /\ store' = Loaded(csv')
          /\ cr' = [Finished(cr) EXCEPT !.existing = Append(@, rec),
                                         !.last = "added"]
    /\ UNCHANGED <<disk, sw, dr, st, mn>>

\* The files the rollback tries to delete
CleanupTargets(c) == {p \in Range(c.generated) : Exists(p)}

\* The else branch: every recorded path that exists is removed, unless
\* os.remove raises OSError for it
Cleanup ==
    /\ cr.pc = "finish"
    /\ ~MayAppend(cr)
    /\ \E kept \in SUBSET CleanupTargets(cr) :
          disk' = RemoveFiles(disk, CleanupTargets(cr) \ kept)
    /\ cr' = Finished(cr)
    /\ UNCHANGED <<csv, store, sw, dr, st, mn>>

----------------------------------------------------------------------------
(* Startup sweep: ensure_audio_files_exist (words) and                     *)
(* ensure_sentence_audio_files_exist (sentences), called in this order by  *)
(* main                                                                    *)

\* pc is the place in the function, run the number of the program start,
\* faults the failures so far in this run.  log (which variant of which row
\* was checked, and what became of it), entry (the counters, the missing
\* variants and the files when the current row was reached), run_generated,
\* run_failed and prev_failed (totals of this run and of the run before) and
\* requests (the requests made to the synthesis endpoint in this sweep of a
\* store) and returned (the stores whose sweep has returned since the program
\* started) record what happened; the sweep does not read them.
ZeroCounters ==
    [items_all_speeds_found |-> 0, items_had_missing_speeds |-> 0,
     individual_files_generated |-> 0, individual_files_failed_generation |-> 0,
     skipped_incomplete_csv |-> 0]

NoEntry == [at |-> 0, counters |-> ZeroCounters, missing |-> {}, files |-> <<>>,
            clean |-> TRUE]

SwOff ==
    [pc |-> "off", kind |-> "word", vocab |-> <<>>, ei |-> 0, vi |-> 0,
     all_speeds_present_for_this_item |-> TRUE,
     generation_attempted_for_this_item |-> FALSE,
     counters |-> ZeroCounters, run |-> 1, faults |-> 0,
     log |-> <<>>, entry |-> NoEntry, requests |-> 0, returned |-> <<>>,
     run_generated |-> 0, run_failed |-> 0, prev_failed |-> 0, prev_generated |-> 0]

\* A test that looks at the key only
Incomplete_KeyOnly(kind, row) == Falsy(KeyOf(kind, row))

\* `if not character or not base_audio_file_name` (words), `if not
\* sentence_text or not base_audio_file_name` (sentences)
Incomplete(kind, row) == Falsy(KeyOf(kind, row)) \/ Falsy(row.audio_file_name)

\* A sweep that regenerates every variant
NeedsGeneration_Always(path) == TRUE

\* A sweep that takes every variant for present
NeedsGeneration_Never(path) == FALSE

\* `if not os.path.exists(audio_path):`
NeedsGeneration(path) == ~Exists(path)

\* The function is entered: the store is loaded and, when it holds no row,
\* the function returns at once.  main calls the word sweep first and the
\* sentence sweep when the word sweep has returned.
StartSweep ==
    /\ \/ sw.pc = "off"
       \/ sw.pc = "done" /\ sw.kind = "word"
    /\ LET kind == IF sw.pc = "off" THEN "word" ELSE "sentence"
           vocab == load(kind)
       IN /\ sw' = [sw EXCEPT !.kind = kind, !.vocab = vocab,
                              !.pc = IF vocab = <<>> THEN "done" ELSE "entry",
                              !.ei = 1, !.vi = 0, !.counters = ZeroCounters,
                              !.log = <<>>, !.entry = NoEntry, !.requests = 0,
                              !.returned = IF vocab = <<>> THEN Append(@, kind)
                                           ELSE @]
          /\ csv' = [csv EXCEPT ![kind] = FileAfterLoad(@)]
          /\ store' = Loaded(csv')
    /\ UNCHANGED <<disk, cr, dr, st, mn>>

\* Top of `for entry in vocab`: an incomplete row is counted and skipped
EntryBegin ==
    /\ sw.pc = "entry"
    /\ sw.ei <= Len(sw.vocab)
    /\ LET row == sw.vocab[sw.ei]
       IN IF Incomplete(sw.kind, row)
          THEN sw' = [sw EXCEPT !.counters.skipped_incomplete_csv = @ + 1,
                                !.ei = @ + 1,
                                !.entry = [NoEntry EXCEPT !.at = sw.ei,
                                                          !.counters = sw.counters]]
          ELSE sw' = [sw EXCEPT !.pc = "variant", !.vi = 1,
                        !.all_speeds_present_for_this_item = TRUE,
                        !.generation_attempted_for_this_item = FALSE,
                        !.entry = [at |-> sw.ei, counters |-> sw.counters,
                                   missing |-> {v \in Variants :
                                      VariantPath(sw.kind, row.audio_file_name, v)
                                         \notin DOMAIN disk},
                                   files |-> disk, clean |-> TRUE]]
    /\ UNCHANGED <<csv, store, disk, cr, dr, st, mn>>

\* The variant loop moves on: to the next variant, or past the last one
NextVariant(c) ==
    IF c.vi < Len(speeds_to_generate) THEN [c EXCEPT !.vi = @ + 1]
    ELSE [c EXCEPT !.pc = "entryend"]

Logged(c, what) == [c EXCEPT !.log = Append(@, [ei |-> c.ei, vi |-> c.vi, what |-> what])]

\* A sweep that leaves the variant loop at the first failure
AfterFailure_Break(c) ==
    [Logged(c, "failed") EXCEPT
        !.counters.individual_files_failed_generation = @ + 1,
        !.run_failed = @ + 1, !.faults = @ + 1, !.entry.clean = FALSE,
        !.pc = "entryend"]

\* Both failure branches (no audio, or the save raised): the failure is
\* counted and the loop goes on
AfterFailure(c) ==
    NextVariant([Logged(c, "failed") EXCEPT
        !.counters.individual_files_failed_generation = @ + 1,
        !.run_failed = @ + 1, !.faults = @ + 1, !.entry.clean = FALSE])

\* The file was written: it is counted
AfterGenerated(c) ==
    NextVariant([Logged(c, "generated") EXCEPT
        !.counters.individual_files_generated = @ + 1,
        !.run_generated = @ + 1])

\* One iteration of `for suffix, speed_value in speeds_to_generate.items()`
CheckVariant ==
    /\ sw.pc = "variant"
    /\ LET row == sw.vocab[sw.ei]
           path == VariantPath(sw.kind, row.audio_file_name, sw.vi)
           flagged(data) ==
               [sw EXCEPT !.all_speeds_present_for_this_item = FALSE,
                          !.generation_attempted_for_this_item = TRUE,
                          !.requests = @ + RequestsMade(data)]
       IN IF ~NeedsGeneration(path)
          THEN /\ sw' = NextVariant(Logged(sw, "present"))
               /\ disk' = disk
          ELSE \E data \in generate_tts_audio(KeyOf(sw.kind, row),
                                              speeds_to_generate[sw.vi].value) :
                 IF ~Truthy(data)
                 THEN /\ sw.faults < MaxFaults
                      /\ sw' = AfterFailure(flagged(data))
                      /\ disk' = disk
                 ELSE \E w \in WriteOutcomes :
                        CASE w = "ok" ->
                               /\ disk' = WriteFile(disk, path, data)
                               /\ sw' = AfterGenerated(flagged(data))
                          [] w = "open_fails" ->
                               /\ sw.faults < MaxFaults
                               /\ disk' = disk
                               /\ sw' = AfterFailure(flagged(data))
                          [] w = "write_fails" ->
                               /\ sw.faults < MaxFaults
                               /\ disk' = WriteFile(disk, path, Truncated)
                               /\ sw' = AfterFailure(flagged(data))
    /\ UNCHANGED <<csv, store, cr, dr, st, mn>>

\* A sweep that has the two item counters swapped
CountItem_Swapped(c) ==
    IF c.all_speeds_present_for_this_item
    THEN [c.counters EXCEPT !.items_had_missing_speeds = @ + 1]
    ELSE IF c.generation_attempted_for_this_item
    THEN [c.counters EXCEPT !.items_all_speeds_found = @ + 1]
    ELSE c.counters

\* A sweep that counts a row under had-missing only when none of its
\* generations failed
CountItem_FailedNotCounted(c) ==
    IF c.all_speeds_present_for_this_item
    THEN [c.counters EXCEPT !.items_all_speeds_found = @ + 1]
    ELSE IF c.generation_attempted_for_this_item /\ c.entry.clean
    THEN [c.counters EXCEPT !.items_had_missing_speeds = @ + 1]
    ELSE c.counters

\* `if all_speeds_present_for_this_item: ... elif
\* generation_attempted_for_this_item: ...`
CountItem(c) ==
    IF c.all_speeds_present_for_this_item
    THEN [c.counters EXCEPT !.items_all_speeds_found = @ + 1]
    ELSE IF c.generation_attempted_for_this_item
    THEN [c.counters EXCEPT !.items_had_missing_speeds = @ + 1]
    ELSE c.counters

\* End of the body of `for entry in vocab`
EntryEnd ==
    /\ sw.pc = "entryend"
    /\ sw' = [sw EXCEPT !.counters = CountItem(sw), !.pc = "entry", !.ei = @ + 1,
                        !.vi = 0]
    /\ UNCHANGED <<csv, store, disk, cr, dr, st, mn>>

\* The loop over the rows has ended: the summary is printed
SweepDone ==
    /\ sw.pc = "entry"
    /\ sw.ei > Len(sw.vocab)
    /\ sw' = [sw EXCEPT !.pc = "done", !.returned = Append(@, sw.kind)]
    /\ UNCHANGED <<csv, store, disk, cr, dr, st, mn>>

\* The program is started again, after the sentence sweep of the run before
\* has returned
Restart ==
    /\ sw.pc = "done" /\ sw.kind = "sentence"
    /\ sw.run < MaxRuns
    /\ sw' = [SwOff EXCEPT !.run = sw.run + 1, !.prev_failed = sw.run_failed,
                           !.prev_generated = sw.run_generated]
    /\ UNCHANGED <<csv, store, disk, cr, dr, st, mn>>

----------------------------------------------------------------------------
(* Drill sessions: run_dictation_practice (kind "word") and                *)
(* run_dictation_pro (kind "sentence")                                     *)

\* pc is the place in the function; order is the shuffled list, as indices
\* into the loaded list vocab.  shown (how often each row was presented in
\* this shuffle), total (in this session), play_failed (rows whose playback
\* raised), played (the latest play request and the file it resolved to),
\* asked (the practice-again question was put), ready (the start screen was
\* confirmed), key_on_screen (the key field of the current row was printed
\* since the screen was last cleared) and shuffles record what happened; the
\* session does not read them.  played.key is the key that asked for the
\* play and played.from the speed index before it.
NoPlay ==
    [req |-> "none", found |-> FALSE, path |-> [dir |-> "", file |-> <<>>],
     key |-> "none", from |-> 0]

DrOff ==
    [pc |-> "off", kind |-> "word", vocab |-> <<>>, order |-> <<>>,
     current_idx |-> 0, total_items |-> 0, current_speed_index |-> 0,
     shown |-> <<>>, total |-> <<>>, play_failed |-> {}, played |-> NoPlay,
     asked |-> FALSE, shuffles |-> 0, result |-> "none", ready |-> FALSE,
     key_on_screen |-> FALSE]

\* random.shuffle with repetition: not a permutation
Shuffles_WithRepetition(n) == [1..n -> 1..n]

\* random.shuffle: every permutation of the n loaded rows
Shuffles(n) == {f \in [1..n -> 1..n] : \A i, j \in 1..n : f[i] = f[j] => i = j}

\* [i for i, conf in enumerate(SPEED_CONFIGURATIONS) if conf["value"] ==
\* DEFAULT_KOKORO_SPEED][0], as an index from 0
DefaultSpeedIndex ==
    (CHOOSE i \in 1..Len(SPEED_CONFIGURATIONS) :
        /\ SPEED_CONFIGURATIONS[i].value = DEFAULT_KOKORO_SPEED
        /\ \A j \in 1..(i - 1) : SPEED_CONFIGURATIONS[j].value # DEFAULT_KOKORO_SPEED) - 1

\* The file of `name` at the speed with index `idx` (from 0)
SpeedPath(kind, name, idx) ==
    LET se == splitext(name)
    IN [dir |-> AudioDir(kind),
        file |-> se.root \o SPEED_CONFIGURATIONS[idx + 1].suffix \o ExtOrMp3(se.ext)]

\* The row at the current position of the shuffled list
CurrentItem(d) == d.vocab[d.order[d.current_idx + 1]]

\* `if not all([char, pinyin, character_meaning, base_audio_file_name])`
\* (words), `if not text or not base_audio_file_name` (sentences)
DrillIncomplete(kind, row) ==
    IF kind = "word"
    THEN Falsy(row.character) \/ Falsy(row.pinyin) \/ Falsy(row.character_meaning)
         \/ Falsy(row.audio_file_name)
    ELSE Falsy(row.sentence_text) \/ Falsy(row.audio_file_name)

\* The function is left, by return or by an exception: its locals are gone
\* and the screen is cleared or scrolls on
Ended(d, result) ==
    [d EXCEPT !.pc = "ended", !.result = result, !.order = <<>>, !.current_idx = 0,
              !.current_speed_index = 0, !.played = NoPlay, !.key_on_screen = FALSE]

\* An empty list is not looked at: the start screen comes up all the same
AfterLoad_NoEmptyCheck(d, kind, vocab) ==
    [d EXCEPT !.kind = kind, !.vocab = vocab, !.pc = "confirm"]

\* `if not vocab: ... return`: an empty store ends the session after a key
\* press, a store with rows leads to the start screen
AfterLoad(d, kind, vocab) ==
    IF vocab = <<>>
    THEN Ended([d EXCEPT !.kind = kind, !.vocab = vocab], "empty")
    ELSE [d EXCEPT !.kind = kind, !.vocab = vocab, !.pc = "confirm"]

\* The function is entered: the store is loaded
StartDrill(kind) ==
    /\ dr.pc = "off"
    /\ dr' = AfterLoad(dr, kind, load(kind))
    /\ UNCHANGED <<csv, store, disk, cr, sw, st, mn>>

\* A shuffle that puts the speed back to the default
Shuffled_ResetsSpeed(d, order) ==
    [d EXCEPT !.order = order, !.current_idx = 0, !.pc = "top",
              !.shown = [i \in 1..Len(d.vocab) |-> 0], !.shuffles = @ + 1,
              !.played = NoPlay, !.asked = FALSE, !.key_on_screen = FALSE,
              !.current_speed_index = DefaultSpeedIndex]

\* The list after random.shuffle, the position at its start
Shuffled(d, order) ==
    [d EXCEPT !.order = order, !.current_idx = 0, !.pc = "top",
              !.shown = [i \in 1..Len(d.vocab) |-> 0], !.shuffles = @ + 1,
              !.played = NoPlay, !.asked = FALSE, !.key_on_screen = FALSE]

\* The start screen: declined (or "go back"), or confirmed, and then the
\* list is shuffled
ConfirmStart ==
    /\ dr.pc = "confirm"
    /\ \/ dr' = Ended(dr, "declined")
       \/ \E order \in Shuffles(Len(dr.vocab)) :
             dr' = [Shuffled(dr, order) EXCEPT
                      !.ready = TRUE,
                      !.total_items = Len(dr.vocab),
                      !.total = [i \in 1..Len(dr.vocab) |-> 0],
                      !.current_speed_index = DefaultSpeedIndex]
    /\ UNCHANGED <<csv, store, disk, cr, sw, st, mn>>

\* A skip that ends the session whatever is left of the list
SkipItem_Ends(d) == Ended(d, "exhausted")

\* A skip that also turns the list round
SkipItem_Reorders(d) ==
    IF d.current_idx + 1 < d.total_items
    THEN [d EXCEPT !.current_idx = @ + 1, !.pc = "top", !.key_on_screen = FALSE,
                   !.played = NoPlay,
                   !.order = [i \in 1..Len(@) |-> @[Len(@) + 1 - i]]]
    ELSE Ended(d, "exhausted")

\* current_idx += 1; continue: the while condition is tested again, and the
\* function returns when the list is used up
SkipItem(d) ==
    IF d.current_idx + 1 < d.total_items
    THEN [d EXCEPT !.current_idx = @ + 1, !.pc = "top", !.key_on_screen = FALSE,
                   !.played = NoPlay]
    ELSE Ended(d, "exhausted")

\* A play request that does not fall back to the default file
play_current_sentence_audio_NoFallback(name, speed_index) ==
    LET at_speed == SpeedPath("sentence", name, speed_index)
    IN [found |-> Exists(at_speed), path |-> at_speed]

\* A play request that claims a file when there is none
play_current_sentence_audio_AlwaysFound(name, speed_index) ==
    LET at_speed == SpeedPath("sentence", name, speed_index)
        at_default == SpeedPath("sentence", name, DefaultSpeedIndex)
    IN [found |-> TRUE, path |-> IF Exists(at_speed) THEN at_speed ELSE at_default]

\* play_current_sentence_audio up to the playsound call: the file at the
\* current speed, else the file at the default speed, else nothing
play_current_sentence_audio(name, speed_index) ==
    LET at_speed == SpeedPath("sentence", name, speed_index)
        at_default == SpeedPath("sentence", name, DefaultSpeedIndex)
    IN IF Exists(at_speed) THEN [found |-> TRUE, path |-> at_speed]
       ELSE IF Exists(at_default) THEN [found |-> TRUE, path |-> at_default]
       ELSE [found |-> FALSE, path |-> at_default]

\* The row is presented: its audio was played
Present(d) ==
    [d EXCEPT !.pc = "presenting",
              !.shown[d.order[d.current_idx + 1]] = @ + 1,
              !.total[d.order[d.current_idx + 1]] = @ + 1]

\* The error message of play_current_sentence_audio for a missing file at
\* the current speed prints the first characters of the sentence
PrintsSentence(name, speed_index) == ~Exists(SpeedPath("sentence", name, speed_index))

\* The body of the while loop up to the first wait for a key: the row is
\* skipped when incomplete; the word drill wants the default file, and prints
\* the character and waits for Enter when it is missing; the screen is
\* cleared for the listening prompt and the audio is played, and playsound
\* may raise
ItemTop ==
    /\ dr.pc = "top"
    /\ dr.current_idx < dr.total_items
    /\ LET item == CurrentItem(dr)
           reset == [dr EXCEPT !.played = NoPlay]
       IN IF DrillIncomplete(dr.kind, item)
          THEN dr' = SkipItem(reset)
          ELSE IF dr.kind = "word"
          THEN LET audio_to_play == VariantPath("word", item.audio_file_name, 1)
               IN IF ~Exists(audio_to_play)
                  THEN dr' = [reset EXCEPT !.pc = "skipwait", !.key_on_screen = TRUE]
                  ELSE \E ok \in BOOLEAN :
                         LET p == [req |-> "initial", found |-> TRUE,
                                   path |-> audio_to_play, key |-> "none",
                                   from |-> dr.current_speed_index]
                         IN dr' = IF ok THEN Present([dr EXCEPT !.played = p])
                                  ELSE [dr EXCEPT !.played = p, !.pc = "playerror",
                                          !.play_failed = @ \cup
                                              {dr.order[dr.current_idx + 1]}]
          ELSE LET r == play_current_sentence_audio(item.audio_file_name,
                                                    dr.current_speed_index)
                   shows == PrintsSentence(item.audio_file_name,
                                           dr.current_speed_index)
               IN IF ~r.found
                  THEN dr' = [dr EXCEPT !.pc = "playerror", !.key_on_screen = shows,
                                !.played = [req |-> "initial", found |-> FALSE,
                                            path |-> r.path, key |-> "none",
                                            from |-> dr.current_speed_index]]
                  ELSE \E ok \in BOOLEAN :
                         LET p == [req |-> "initial", found |-> TRUE,
                                   path |-> r.path, key |-> "none",
                                   from |-> dr.current_speed_index]
                         IN dr' = IF ok
                                  THEN Present([dr EXCEPT !.played = p,
                                                          !.key_on_screen = shows])
                                  ELSE [dr EXCEPT !.played = p, !.pc = "playerror",
                                          !.key_on_screen = shows,
                                          !.play_failed = @ \cup
                                              {dr.order[dr.current_idx + 1]}]
    /\ UNCHANGED <<csv, store, disk, cr, sw, st, mn>>

\* Word drill, default file missing: Enter skips the word; EOF or
\* KeyboardInterrupt at this prompt is not caught and ends the program
SkipMissing ==
    /\ dr.pc = "skipwait"
    /\ \/ dr' = SkipItem(dr)
       \/ dr' = Ended(dr, "interrupted")
    /\ UNCHANGED <<csv, store, disk, cr, sw, st, mn>>

\* "Error playing audio. Continue ...?": yes skips the row, no leaves the
\* loop; EOF or KeyboardInterrupt at this question is not caught
PlayErrorAnswer ==
    /\ dr.pc = "playerror"
    /\ \/ dr' = SkipItem(dr)
       \/ dr' = Ended(dr, "stopped")
       \/ dr' = Ended(dr, "interrupted")
    /\ UNCHANGED <<csv, store, disk, cr, sw, st, mn>>

\* A quit signal that leads on to the practice-again question
Quit_AsksAgain(d) == [d EXCEPT !.pc = "again", !.result = "quit", !.asked = TRUE]

\* The quit signal of a drill (EOF or KeyboardInterrupt at the prompts of
\* the word drill and at the last key of the sentence drill, "q" in the
\* sentence drill): the screen is cleared and the function returns
Quit(d) == Ended(d, "quit")

\* display_chinese_character / display_chinese_sentence: the key field is
\* put on the cleared screen
Reveal(d) == [d EXCEPT !.pc = "revealed", !.key_on_screen = TRUE]

\* Word drill, listening: Enter reveals the character; EOF or
\* KeyboardInterrupt ends the session
WordListen ==
    /\ dr.pc = "presenting" /\ dr.kind = "word"
    /\ \/ dr' = Reveal(dr)
       \/ dr' = Quit(dr)
    /\ UNCHANGED <<csv, store, disk, cr, sw, st, mn>>

\* LEFT that stops at the first speed
SpeedLeft_NoWrap(i) == IF i = 0 THEN 0 ELSE i - 1

\* LEFT: (current_speed_index - 1 + len(...)) % len(...)
SpeedLeft(i) == (i - 1 + Len(SPEED_CONFIGURATIONS)) % Len(SPEED_CONFIGURATIONS)

\* RIGHT: (current_speed_index + 1) % len(...)
SpeedRight(i) == (i + 1) % Len(SPEED_CONFIGURATIONS)

\* A play request in the key loop: the listening prompt is drawn on the
\* cleared screen, the file is resolved again and handed to playsound;
\* whether playsound raises is not looked at by the key loop
Replayed(d, req, key, from) ==
    LET name == CurrentItem(d).audio_file_name
        r == play_current_sentence_audio(name, d.current_speed_index)
    IN [d EXCEPT !.played = [req |-> req, found |-> r.found, path |-> r.path,
                             key |-> key, from |-> from],
                 !.key_on_screen = PrintsSentence(name, d.current_speed_index)]

ProKeys == {"LEFT", "RIGHT", "SPACE", "ENTER", "q", "x", "CTRL_C"}

\* Sentence drill, the key loop while listening; readkey raises
\* KeyboardInterrupt on Ctrl-C, which this loop does not catch
ProListen ==
    /\ dr.pc = "presenting" /\ dr.kind = "sentence"
    /\ \E key \in ProKeys :
          CASE key = "LEFT" ->
                 dr' = Replayed([dr EXCEPT !.current_speed_index = SpeedLeft(@)],
                                "speed", key, dr.current_speed_index)
            [] key = "RIGHT" ->
                 dr' = Replayed([dr EXCEPT !.current_speed_index = SpeedRight(@)],
                                "speed", key, dr.current_speed_index)
            [] key = "SPACE" ->
                 dr' = Replayed(dr, "replay", key, dr.current_speed_index)
            [] key = "ENTER" -> dr' = Reveal(dr)
            [] key = "q" -> dr' = Quit(dr)
            [] key = "CTRL_C" -> dr' = Ended(dr, "interrupted")
            [] OTHER -> dr' = dr
    /\ UNCHANGED <<csv, store, disk, cr, sw, st, mn>>

\* A reveal after which the position stays where it is
Advance_NoStep(d) ==
    [d EXCEPT !.pc = "top", !.played = NoPlay, !.key_on_screen = FALSE]

\* current_idx += 1 after the reveal: at the end of the list the
\* practice-again question is put
Advance(d) ==
    [d EXCEPT !.current_idx = @ + 1,
              !.pc = IF d.current_idx + 1 >= d.total_items THEN "again" ELSE "top",
              !.asked = d.current_idx + 1 >= d.total_items,
              !.played = NoPlay, !.key_on_screen = FALSE]

\* The key field is on screen: a key (Enter) goes on; EOF or
\* KeyboardInterrupt (word drill), "q" (sentence drill) end the session
Revealed ==
    /\ dr.pc = "revealed"
    /\ \/ dr' = Advance(dr)
       \/ dr' = Quit(dr)
    /\ UNCHANGED <<csv, store, disk, cr, sw, st, mn>>

\* "Practice again with a new shuffle?": yes shuffles again, no ends the
\* session; EOF or KeyboardInterrupt at this question is not caught
PracticeAgain ==
    /\ dr.pc = "again"
    /\ \/ /\ dr.shuffles < MaxShuffles
          /\ \E order \in Shuffles(Len(dr.vocab)) : dr' = Shuffled(dr, order)
       \/ dr' = Ended(dr, "completed")
       \/ dr' = Ended(dr, "interrupted")
    /\ UNCHANGED <<csv, store, disk, cr, sw, st, mn>>

----------------------------------------------------------------------------
(* Initial states *)

StoredKeys(kind) == IF kind = "word" THEN {<<"w", "0">>} ELSE {<<"s", "0">>}

\* audio_file_name values of rows already in a store file: without and with
\* extension
StoredNames(kind) == {<<"a">>, <<"a">> \o Mp3}

StoredRecords(kind) ==
    {NewRecord(kind, k, <<"p">>, <<"b">>, n) : k \in StoredKeys(kind),
                                                n \in StoredNames(kind)}

\* Up to MaxStore different rows of a store file
Stores(kind) ==
    UNION {{f \in [1..n -> StoredRecords(kind)] : \A i, j \in 1..n : f[i] = f[j] => i = j} :
           n \in 0..MaxStore}

\* The variant files of the complete rows of a store
FilesOf(kind, rows) ==
    UNION {VariantPaths(kind, rows[i].audio_file_name) :
             i \in {j \in 1..Len(rows) : ~Falsy(KeyOf(kind, rows[j]))
                                         /\ ~Falsy(rows[j].audio_file_name)}}

SwIdle == SwOff
DrIdle == DrOff

\* main has not been entered
MnOff == [pc |-> "off", update_vocab |-> FALSE]

\* A line that loads as rec: the values in field order, the absent ones at
\* the end left out
LineOf(kind, rec) ==
    LET cells == IF kind = "word"
                 THEN <<rec.character, rec.pinyin, rec.character_meaning,
                        rec.audio_file_name>>
                 ELSE <<rec.sentence_text, rec.audio_file_name>>
        there == {i \in 1..Len(cells) : cells[i] # NoneVal}
    IN SubSeq(cells, 1, IF there = {} THEN 0
                        ELSE CHOOSE i \in there : \A j \in there : j <= i)

\* A store file whose second row cannot be decoded
Unreadable(kind) ==
    [exists |-> TRUE,
     lines |-> <<Header(kind), [i \in 1..Len(Fields(kind)) |-> <<"a">>],
                 << <<InvalidByte>> >> >>]

\* The store file that loads as rows: the header and one line per row, and
\* no file for no rows
StoreFile(kind, rows) ==
    IF rows = <<>> THEN NoFile
    ELSE [exists |-> TRUE,
          lines |-> <<Header(kind)>> \o [i \in 1..Len(rows) |-> LineOf(kind, rows[i])]]

\* A file of size 0
EmptyFile == [exists |-> TRUE, lines |-> <<>>]

\* All the store files that load as rows: for no rows, also a file of size
\* 0, a file with the header only and a file that cannot be read
StoreFilesAtStart(kind, rows) ==
    {StoreFile(kind, rows)}
    \cup (IF rows = <<>>
          THEN {EmptyFile, [exists |-> TRUE, lines |-> <<Header(kind)>>],
                Unreadable(kind)}
          ELSE {})

\* The store file of rows with a blank line after the header
WithBlankLine(kind, rows) ==
    [exists |-> TRUE,
     lines |-> <<Header(kind), <<>> >> \o [i \in 1..Len(rows) |-> LineOf(kind, rows[i])]]

\* The two store files: the one of kind k is f, the other one is not there
OneStore(k, f) == [x \in Kinds |-> IF x = k THEN f ELSE NoFile]

\* The store functions have not been run alone.  kind is the store of the
\* latest call, last how it ended, loaded what the latest load returned;
\* saves counts the calls of save_*_entry, written holds the records whose
\* save ended well, start the store files at the start.
StOff == [kind |-> "word", last |-> "none", loaded |-> <<>>, saves |-> 0,
          written |-> [k \in Kinds |-> <<>>], start |-> [k \in Kinds |-> NoFile]]

\* Creation starts at the menu, after a sweep that filled the cache: one
\* store holds rows, and the variant files of its complete rows are on disk
InitCreate ==
    /\ \E k \in Kinds : \E rows \in Stores(k) :
          /\ csv = OneStore(k, StoreFile(k, rows))
          /\ store = Loaded(csv)
          /\ disk = [p \in FilesOf(k, rows) |-> Orig]
    /\ cr = CrIdle
    /\ sw = SwIdle
    /\ dr = DrIdle
    /\ st = StOff
    /\ mn = MnOff

NextCreate ==
    \/ \E k \in Kinds : StartUpdate(k)
    \/ ReadLine
    \/ LeaveUpdate
    \/ InterruptPrompt
    \/ LineDone
    \/ BeginEntry
    \/ ProbeStep
    \/ ProbeDone
    \/ Synthesize
    \/ InterruptSynthesis
    \/ Save
    \/ AppendEntry
    \/ Cleanup

SpecCreate == InitCreate /\ [][NextCreate]_vars

\* Rows a store file may hold when the program starts: complete ones (with
\* and without extension in audio_file_name) and incomplete ones (no
\* audio_file_name, no key)
SweepRecords(kind) ==
    {NewRecord(kind, <<"k", "0">>, <<"p">>, <<"b">>, <<"a">> \o Mp3),
     NewRecord(kind, <<"k", "1">>, <<"p">>, <<"b">>, <<"b">>),
     NewRecord(kind, <<"k", "2">>, <<"p">>, <<"b">>, NoneVal),
     NewRecord(kind, <<>>, <<"p">>, <<"b">>, <<"a">> \o Mp3)}

SweepStores(kind) == UNION {[1..n -> SweepRecords(kind)] : n \in 0..MaxStore}

\* The first n variant files of every complete row
FirstFiles(kind, rows, n) ==
    UNION {{VariantPath(kind, rows[i].audio_file_name, v) : v \in 1..n[i]} :
             i \in {j \in 1..Len(rows) : ~Incomplete(kind, rows[j])}}

\* The program starts: one store holds rows, and of each complete row the
\* first 0, 1, 2 or 3 variant files are on disk
FilesAtStart ==
    \E k \in Kinds : \E rows \in SweepStores(k) :
       /\ \E f \in StoreFilesAtStart(k, rows) : csv = OneStore(k, f)
       /\ store = Loaded(csv)
       /\ \E n \in [1..Len(rows) -> 0..Len(speeds_to_generate)] :
             disk = [p \in FirstFiles(k, rows, n) |-> Orig]

InitSweep ==
    /\ FilesAtStart
    /\ cr = CrIdle
    /\ sw = SwOff
    /\ dr = DrIdle
    /\ st = StOff
    /\ mn = MnOff

NextSweep ==
    \/ StartSweep
    \/ EntryBegin
    \/ CheckVariant
    \/ EntryEnd
    \/ SweepDone
    \/ Restart

SpecSweep == InitSweep /\ [][NextSweep]_vars

----------------------------------------------------------------------------
(* main: the directories, the two sweeps, then the update menu (with       *)
(* --update-vocab) or the main menu.  What a drill or a creation function  *)
(* does between its start and its return is followed in SpecDrill and      *)
(* SpecCreate.                                                             *)

\* The three os.makedirs calls of main are in no try block: when one raises,
\* the program ends
MainDirs ==
    /\ mn.pc = "start"
    /\ \E made \in BOOLEAN :
          mn' = [mn EXCEPT !.pc = IF made THEN "sweeps" ELSE "exited"]
    /\ UNCHANGED <<csv, store, disk, cr, sw, dr, st>>

\* ensure_audio_files_exist(ARGS), then ensure_sentence_audio_files_exist(ARGS)
MainSweep ==
    /\ mn.pc = "sweeps"
    /\ \/ StartSweep
       \/ EntryBegin
       \/ CheckVariant
       \/ EntryEnd
       \/ SweepDone

\* Ctrl-C while a sweep waits for the synthesis endpoint: KeyboardInterrupt
\* is not a RequestException, it leaves the sweep and main
InterruptSweep ==
    /\ mn.pc = "sweeps"
    /\ sw.pc = "variant"
    /\ NeedsGeneration(VariantPath(sw.kind, sw.vocab[sw.ei].audio_file_name, sw.vi))
    /\ mn' = [mn EXCEPT !.pc = "exited"]
    /\ UNCHANGED <<csv, store, disk, cr, sw, dr, st>>

\* A main that opens the menu when one sweep has returned
MenuReached_AfterOneSweep(s) == s.pc = "done"

\* main comes to `if ARGS.update_vocab:` when the second of the two calls,
\* ensure_sentence_audio_files_exist, has returned
MenuReached(s) == s.pc = "done" /\ s.kind = "sentence"

\* `if ARGS.update_vocab: handle_update_vocabulary_menu(ARGS)`, else the
\* first display_main_menu()
EnterMenu ==
    /\ mn.pc = "sweeps"
    /\ MenuReached(sw)
    /\ mn' = [mn EXCEPT !.pc = IF mn.update_vocab THEN "update_menu"
                                ELSE "main_menu"]
    /\ UNCHANGED <<csv, store, disk, cr, sw, dr, st>>

\* Main menu, "dictation" or "dictation_pro": the drill function is called
MainMenuDrill ==
    /\ mn.pc = "main_menu"
    /\ \E k \in Kinds : StartDrill(k)

\* The drill function has returned: the main menu is shown again
DrillReturns ==
    /\ mn.pc = "main_menu"
    /\ dr.pc # "off"
    /\ dr' = DrOff
    /\ UNCHANGED <<csv, store, disk, cr, sw, st, mn>>

\* Main menu, "update_vocab"
MainMenuUpdate ==
    /\ mn.pc = "main_menu"
    /\ dr.pc = "off"
    /\ mn' = [mn EXCEPT !.pc = "update_menu"]
    /\ UNCHANGED <<csv, store, disk, cr, sw, dr, st>>

\* Main menu, "exit"
MainMenuExit ==
    /\ mn.pc = "main_menu"
    /\ dr.pc = "off"
    /\ mn' = [mn EXCEPT !.pc = "exited"]
    /\ UNCHANGED <<csv, store, disk, cr, sw, dr, st>>

\* Update menu, Enter on one of the two update functions
UpdateMenuChoice ==
    /\ mn.pc = "update_menu"
    /\ \E k \in Kinds : StartUpdate(k)

\* The update function returns from its prompt to the update menu
UpdateReturns ==
    /\ mn.pc = "update_menu"
    /\ \/ LeaveUpdate
       \/ InterruptPrompt

\* Update menu, "Back to Main Menu" or "q": the function returns, and with
\* --update-vocab main returns too
UpdateMenuBack ==
    /\ mn.pc = "update_menu"
    /\ cr.pc = "menu"
    /\ mn' = [mn EXCEPT !.pc = IF mn.update_vocab THEN "exited" ELSE "main_menu"]
    /\ UNCHANGED <<csv, store, disk, cr, sw, dr, st>>

\* The program is started with or without --update-vocab
InitMain ==
    /\ FilesAtStart
    /\ cr = CrIdle
    /\ sw = SwOff
    /\ dr = DrOff
    /\ st = StOff
    /\ \E flag \in BOOLEAN : mn = [pc |-> "start", update_vocab |-> flag]

NextMain ==
    \/ MainDirs
    \/ MainSweep
    \/ InterruptSweep
    \/ EnterMenu
    \/ MainMenuDrill
    \/ DrillReturns
    \/ MainMenuUpdate
    \/ MainMenuExit
    \/ UpdateMenuChoice
    \/ UpdateReturns
    \/ UpdateMenuBack

SpecMain == InitMain /\ [][NextMain]_vars

----------------------------------------------------------------------------
(* The store functions run alone: load_vocab / load_sentences and          *)
(* save_vocab_entry / save_sentence_entry on one store file                *)

\* The records handed to save_*_entry
EntriesToSave(kind) ==
    {NewRecord(kind, <<"k", d>>, <<"p">>, <<"b">>, <<"a">> \o Mp3) : d \in {"0", "1"}}

\* One call of save_vocab_entry / save_sentence_entry
SaveEntry ==
    /\ st.saves < MaxSaves
    /\ \E kind \in Kinds : \E rec \in EntriesToSave(kind) : \E outcome \in SaveOutcomes :
          /\ csv' = [csv EXCEPT ![kind] = save_entry(kind, @, rec, outcome)]
          /\ store' = Loaded(csv')
          /\ st' = [st EXCEPT !.kind = kind, !.last = outcome, !.loaded = <<>>,
                              !.saves = @ + 1,
                              !.written[kind] = IF outcome = "ok" THEN Append(@, rec)
                                                ELSE @]
    /\ UNCHANGED <<disk, cr, sw, dr, mn>>

\* One call of load_vocab / load_sentences
LoadStore ==
    /\ \E kind \in Kinds :
          /\ st' = [st EXCEPT !.kind = kind, !.last = "loaded",
                              !.loaded = load(kind)]
          /\ csv' = [csv EXCEPT ![kind] = FileAfterLoad(@)]
          /\ store' = Loaded(csv')
    /\ UNCHANGED <<disk, cr, sw, dr, mn>>

\* One store file is there or not, readable or not, with complete and
\* incomplete rows; a file of one row also with a blank line
InitStore ==
    /\ \E k \in Kinds : \E rows \in SweepStores(k) :
          \E f \in StoreFilesAtStart(k, rows)
                      \cup (IF Len(rows) = 1 THEN {WithBlankLine(k, rows)} ELSE {}) :
             csv = OneStore(k, f)
    /\ store = Loaded(csv)
    /\ disk = <<>>
    /\ cr = CrIdle
    /\ sw = SwOff
    /\ dr = DrIdle
    /\ st = [StOff EXCEPT !.start = csv]
    /\ mn = MnOff

NextStore ==
    \/ SaveEntry
    \/ LoadStore

SpecStore == InitStore /\ [][NextStore]_vars

----------------------------------------------------------------------------
(* Properties of interactive creation, checked under SpecCreate *)

\* The entry that creation has just finished with is a row of its store
InStore == \E i \in 1..Len(store[cr.kind]) :
              /\ KeyOf(cr.kind, store[cr.kind][i]) = cr.key
              /\ store[cr.kind][i].audio_file_name = cr.name

\* No file exists at any of the three variant paths of that entry
NoVariantFile == \A v \in Variants : VariantPath(cr.kind, cr.name, v) \notin DOMAIN disk

\* C1: when synthesis failed for a variant of a new entry, then after the
\* attempt (the rollback has run) no file exists at any of the entry's three
\* variant paths and the entry is not in the store.
C1_NothingLeftAfterSynthFailure ==
    (cr.pc = "next" /\ cr.last = "synth_failed") => (NoVariantFile /\ ~InStore)

\* C2: when the write of a variant raised after the file was opened, then
\* after the attempt none of the entry's three variant paths exists (the
\* file whose write failed included) and the entry is not in the store.
C2_NothingLeftAfterWriteFailure ==
    (cr.pc = "next" /\ cr.last = "write_failed") => (NoVariantFile /\ ~InStore)

\* C3: a step of creation that changes a store file appends exactly the
\* row of the current entry, and at that step each of the entry's three
\* variant files is on disk holding the audio synthesized for it.
C3_AppendAfterAllVariants ==
    [][store' # store =>
         /\ \A v \in Variants :
               /\ VariantPath(cr.kind, cr.name, v) \in DOMAIN disk
               /\ disk[VariantPath(cr.kind, cr.name, v)]
                    = [tag |-> "audio", text |-> cr.key,
                       speed |-> speeds_to_generate[v].value]
         /\ Len(store'[cr.kind]) = Len(store[cr.kind]) + 1
         /\ SubSeq(store'[cr.kind], 1, Len(store[cr.kind])) = store[cr.kind]
         /\ store'[cr.kind][Len(store'[cr.kind])].audio_file_name = cr.name
         /\ disk' = disk]_vars

\* An entry was appended to a store file that already held a row
C3_Witness ==
    /\ cr.pc = "next" /\ cr.last = "added" /\ InStore
    /\ Len(store[cr.kind]) >= 2

\* The files an existing row refers to
RowFiles(kind, row) ==
    IF row.audio_file_name = NoneVal \/ row.audio_file_name = <<>> THEN {}
    ELSE {VariantPath(kind, row.audio_file_name, v) : v \in Variants}

\* C5: once the name of a new entry is fixed it differs from the stored name
\* of every existing row, and the new entry's three variant paths are
\* disjoint from the variant paths of every existing row, so that writing
\* the new entry's files overwrites no file of another entry.
C5_DisjointVariantPaths ==
    cr.pc \in {"synth", "save", "finish"} =>
        \A i \in 1..Len(cr.existing) :
            /\ cr.existing[i].audio_file_name # cr.name
            /\ RowFiles(cr.kind, cr.existing[i])
                  \cap {VariantPath(cr.kind, cr.name, v) : v \in Variants} = {}

\* The names of the rows creation loaded or added
ExistingNames == {cr.existing[i].audio_file_name : i \in 1..Len(cr.existing)}

\* The k-th numbered name: base_k.mp3 for sentences, base_pinyin_k.mp3 for words
Numbered(k) ==
    cr.base \o <<"_">>
      \o (IF cr.kind = "word" THEN cr.pin \o <<"_">> ELSE <<>>)
      \o DecStr(k) \o <<".", "mp3">>

\* C6: the probing loop ends (its counter never passes the number of names
\* in the store by more than one), and from the first synthesis call on the
\* stored name differs from every audio_file_name of the loaded store: it is
\* base.mp3 when that is free, and else the numbered name with the smallest
\* k >= 1 that is free.
C6_ProbedNameIsFirstFree ==
    /\ cr.pc = "probe" => cr.counter <= Cardinality(ExistingNames) + 1
    /\ cr.pc \in {"synth", "save", "finish"} =>
          /\ cr.name \notin ExistingNames
          /\ IF cr.base \o <<".", "mp3">> \notin ExistingNames
             THEN cr.name = cr.base \o <<".", "mp3">>
             ELSE \E k \in 1..(Len(cr.existing) + 1) :
                    /\ cr.name = Numbered(k)
                    /\ \A j \in 1..(k - 1) : Numbered(j) \in ExistingNames

\* The loop passed base.mp3 and the first numbered name and fixed the
\* second numbered name, before any synthesis call of the entry
C6_Witness ==
    /\ cr.pc = "synth" /\ cr.vi = 1
    /\ cr.name = Numbered(2)
    /\ {cr.base \o <<".", "mp3">>, Numbered(1)} \subseteq ExistingNames

\* C12: after an interrupt at a blocking point of creation (the prompt, a
\* synthesis call in flight) the program is back at the menu, and no variant
\* file is on disk for an entry that is not in the store.
C12_InterruptLeavesNothing ==
    cr.last \in {"cancelled", "interrupted"} =>
        (cr.pc = "menu" /\ (~InStore => NoVariantFile))

\* C23: no synthesis failure and no filesystem failure ends the program
\* during creation: after each of them creation goes on with the next entry
\* or returns to the menu.
C23_FailuresAreNotFatal ==
    cr.pc = "exited" => cr.last = "interrupted"

UniqueKeys(kind, rows) ==
    \A i, j \in 1..Len(rows) :
        KeyOf(kind, rows[i]) = KeyOf(kind, rows[j]) => i = j

\* C20: creation checks the key before it appends: no step makes a store
\* whose keys are unique hold two rows with one key; an entry reaches name
\* probing, synthesis, writing or the append only with a key that no row of
\* the list in memory or of the store file has; and the step that finds a
\* key already present leaves the store and the disk as they are and goes on
\* to the next entry.
C20_KeyCheckedBeforeAppend ==
    /\ [](cr.pc \in {"probe", "synth", "save", "finish"} =>
            /\ \A i \in 1..Len(cr.existing) :
                    KeyOf(cr.kind, cr.existing[i]) # cr.key
            /\ \A i \in 1..Len(store[cr.kind]) :
                    KeyOf(cr.kind, store[cr.kind][i]) # cr.key)
    /\ [][\A k \in Kinds :
            UniqueKeys(k, store[k]) => UniqueKeys(k, store'[k])]_vars
    /\ [][(cr'.last = "duplicate" /\ cr' # cr) =>
            (store' = store /\ disk' = disk /\ cr.pc = "next" /\ cr'.pc = "next")]_vars

\* The store was empty, an entry was created in this session, and the next
\* entry typed had its key and was passed over
C20_Witness ==
    /\ cr.pc = "next" /\ cr.last = "duplicate"
    /\ cr.typed = 2
    /\ Len(cr.existing) = 1 /\ Len(store[cr.kind]) = 1
    /\ \A v \in Variants :
          /\ VariantPath(cr.kind, cr.existing[1].audio_file_name, v) \in DOMAIN disk
          /\ disk[VariantPath(cr.kind, cr.existing[1].audio_file_name, v)].tag = "audio"

\* Rows of a store file at the start of a drill
DrillRecords(kind) ==
    {NewRecord(kind, <<"k", "0">>, <<"p">>, <<"b">>, <<"a">> \o Mp3),
     NewRecord(kind, <<"k", "1">>, <<"p">>, <<"b">>, <<"b">>),
     NewRecord(kind, <<"k", "2">>, <<"p">>, <<"b">>, NoneVal)}

\* Store files of up to MaxStore different rows
DrillStores(kind) ==
    UNION {{f \in [1..n -> DrillRecords(kind)] : \A i, j \in 1..n : f[i] = f[j] => i = j} :
           n \in 0..MaxStore}

\* Which variant files of a row are on disk: none, the default one, the
\* slow and the slower one, or all
FilePatterns == {{}, {1}, {2, 3}, {1, 2, 3}}

\* A drill starts from the menu: one store holds rows, and of each complete
\* row some variant files are on disk
InitDrill ==
    /\ \E k \in Kinds : \E rows \in DrillStores(k) :
          /\ \E f \in StoreFilesAtStart(k, rows) : csv = OneStore(k, f)
          /\ store = Loaded(csv)
          /\ \E pat \in [1..Len(rows) -> FilePatterns] :
                disk = [p \in UNION {{VariantPath(k, rows[i].audio_file_name, v) :
                                         v \in pat[i]} :
                                      i \in {j \in 1..Len(rows) :
                                                ~Falsy(rows[j].audio_file_name)}}
                          |-> Orig]
    /\ cr = CrIdle
    /\ sw = SwOff
    /\ dr = DrOff
    /\ st = StOff
    /\ mn = MnOff

NextDrill ==
    \/ \E k \in Kinds : StartDrill(k)
    \/ ConfirmStart
    \/ ItemTop
    \/ SkipMissing
    \/ PlayErrorAnswer
    \/ WordListen
    \/ ProListen
    \/ Revealed
    \/ PracticeAgain

SpecDrill == InitDrill /\ [][NextDrill]_vars

----------------------------------------------------------------------------
(* Properties of the startup sweep, checked under SpecSweep *)

SweptRow == sw.vocab[sw.entry.at]

\* The paths of the variants that were missing when the sweep reached it
MissingPaths ==
    {[dir |-> AudioDir(sw.kind),
      file |-> splitext(SweptRow.audio_file_name).root
                 \o speeds_to_generate[v].suffix
                 \o (IF splitext(SweptRow.audio_file_name).ext = <<>>
                     THEN <<".", "mp3">>
                     ELSE splitext(SweptRow.audio_file_name).ext)] :
       v \in sw.entry.missing}

\* The speed of the variant whose file is at path p
SpeedAt(p) ==
    speeds_to_generate[CHOOSE v \in Variants :
           p.file = splitext(SweptRow.audio_file_name).root
                      \o speeds_to_generate[v].suffix
                      \o (IF splitext(SweptRow.audio_file_name).ext = <<>>
                          THEN <<".", "mp3">>
                          ELSE splitext(SweptRow.audio_file_name).ext)].value

\* C9: for a complete row of which k >= 1 variant files are missing when the
\* sweep reaches it, and for which every synthesis call and write succeeds,
\* the sweep creates exactly those k files (each holding the audio
\* synthesized for the row at the variant's speed) and leaves every other
\* file as it was, adds k to the files generated and nothing to the files
\* failed, and counts the row once under had-missing and not under
\* all-present.
C9_EntryWithMissingVariants ==
    (/\ sw.pc = "entry" /\ sw.entry.at >= 1 /\ sw.entry.at = sw.ei - 1
     /\ sw.entry.missing # {} /\ sw.entry.clean)
    =>
    /\ DOMAIN disk = DOMAIN sw.entry.files \cup MissingPaths
    /\ \A p \in DOMAIN sw.entry.files : disk[p] = sw.entry.files[p]
    /\ \A p \in MissingPaths :
          disk[p] = [tag |-> "audio",
                     text |-> IF sw.kind = "word" THEN SweptRow.character
                              ELSE SweptRow.sentence_text,
                     speed |-> SpeedAt(p)]
    /\ sw.counters.individual_files_generated
          = sw.entry.counters.individual_files_generated
              + Cardinality(sw.entry.missing)
    /\ sw.counters.individual_files_failed_generation
          = sw.entry.counters.individual_files_failed_generation
    /\ sw.counters.items_had_missing_speeds
          = sw.entry.counters.items_had_missing_speeds + 1
    /\ sw.counters.items_all_speeds_found
          = sw.entry.counters.items_all_speeds_found
    /\ sw.counters.skipped_incomplete_csv
          = sw.entry.counters.skipped_incomplete_csv

\* A row that had only its default file: the slow and the slower file were
\* generated and the sweep reports 2 generated, 0 failed, 1 had-missing
C9_Witness ==
    /\ sw.pc = "entry" /\ sw.entry.at = 1 /\ sw.ei = 2
    /\ sw.entry.missing = {2, 3} /\ sw.entry.clean
    /\ sw.counters.individual_files_generated = 2
    /\ sw.counters.individual_files_failed_generation = 0
    /\ sw.counters.items_had_missing_speeds = 1

\* The rows of the loaded store the sweep does not skip
CompleteRows ==
    {i \in 1..Len(sw.vocab) :
        /\ (IF sw.kind = "word" THEN sw.vocab[i].character
            ELSE sw.vocab[i].sentence_text) \notin {NoneVal, <<>>}
        /\ sw.vocab[i].audio_file_name \notin {NoneVal, <<>>}}

\* C10: a failed synthesis or a failed write never ends the sweep early:
\* when the sweep of a store has ended, every variant of every complete row
\* has been checked once, in store order and variant order, each one found
\* missing has had its generation attempted, and the failures are exactly
\* the ones counted.
C10_SweepGoesOnAfterFailure ==
    sw.pc = "done" =>
      /\ {<<sw.log[i].ei, sw.log[i].vi>> : i \in 1..Len(sw.log)}
            = CompleteRows \X (1..3)
      /\ Len(sw.log) = 3 * Cardinality(CompleteRows)
      /\ \A i \in 1..(Len(sw.log) - 1) :
            \/ sw.log[i].ei < sw.log[i + 1].ei
            \/ sw.log[i].ei = sw.log[i + 1].ei /\ sw.log[i].vi < sw.log[i + 1].vi
      /\ sw.counters.individual_files_failed_generation
            = Cardinality({i \in 1..Len(sw.log) : sw.log[i].what = "failed"})
      /\ sw.counters.individual_files_generated
            = Cardinality({i \in 1..Len(sw.log) : sw.log[i].what = "generated"})

\* A generation failed, and after it a missing variant of the same row and
\* a missing variant of a later row were generated
C10_Witness ==
    /\ sw.pc = "done"
    /\ \E i, j, k \in 1..Len(sw.log) :
          /\ i < j /\ j < k
          /\ sw.log[i].what = "failed"
          /\ sw.log[j].ei = sw.log[i].ei /\ sw.log[j].what = "generated"
          /\ sw.log[k].ei > sw.log[i].ei /\ sw.log[k].what = "generated"

----------------------------------------------------------------------------
(* Properties of the drill sessions, checked under SpecDrill *)

DrillRows == 1..Len(dr.vocab)

\* C7 as stated: for every pattern of missing audio files or incomplete
\* records, no row of the store is presented a second time in a session
\* before each of the N rows has been presented once, and no row is
\* presented twice within one shuffle.
C7_EveryRowOnceBeforeAnyRepeat ==
    dr.total # <<>> =>
        /\ \A i \in DrillRows : dr.shown[i] <= 1
        /\ (\E i \in DrillRows : dr.total[i] >= 2) =>
               \A j \in DrillRows : dr.total[j] >= 1

\* The rows a shuffle can present: complete, with the file the drill plays
\* first on disk, and with no playback error in this session
Presentable(i) ==
    /\ ~DrillIncomplete(dr.kind, dr.vocab[i])
    /\ i \notin dr.play_failed
    /\ [dir |-> AudioDir(dr.kind),
        file |-> splitext(dr.vocab[i].audio_file_name).root \o DEFAULT_SPEED_SUFFIX
                 \o ExtOrMp3(splitext(dr.vocab[i].audio_file_name).ext)]
          \in DOMAIN disk

\* C7, amended: within one shuffle no row is presented twice; and no row is
\* presented a second time in a session before every row that is complete,
\* has its default-speed file on disk and whose playback raised no error has
\* been presented once.  When the practice-again question is put, every such
\* row has been presented exactly once in the shuffle that ended.
C7_PresentableRowsOnceBeforeAnyRepeat ==
    dr.total # <<>> =>
        /\ \A i \in DrillRows : dr.shown[i] <= 1
        /\ (\E i \in DrillRows : dr.total[i] >= 2) =>
               \A j \in DrillRows : Presentable(j) => dr.total[j] >= 1
        /\ dr.pc = "again" =>
               \A j \in DrillRows : Presentable(j) => dr.shown[j] = 1

\* A second shuffle is under way, a row is presented for the second time,
\* and another row of the store was skipped in both shuffles
C7_Witness ==
    /\ dr.shuffles = 2
    /\ dr.pc = "presenting"
    /\ Len(dr.vocab) = 2
    /\ \E i, j \in DrillRows : dr.total[i] = 2 /\ dr.total[j] = 0 /\ dr.shown[i] = 1

\* The file of the current sentence at the default speed, and at the
\* selected speed
SelectedFile(suffix) ==
    LET name == CurrentItem(dr).audio_file_name
        dot == LastDot(name)
    IN [dir |-> "audio/pro",
        file |-> IF dot = 0 THEN name \o suffix \o Mp3
                 ELSE SubSeq(name, 1, dot - 1) \o suffix \o SubSeq(name, dot, Len(name))]

\* C8: in the sentence drill, when a play is requested at a speed other
\* than the default whose file is missing while the default-speed file of
\* the sentence exists, the default-speed file is the one handed to playback.
C8_FallsBackToDefaultFile ==
    (/\ dr.kind = "sentence"
     /\ dr.pc \in {"presenting", "playerror"}
     /\ dr.played.req # "none"
     /\ SPEED_CONFIGURATIONS[dr.current_speed_index + 1].value # DEFAULT_KOKORO_SPEED
     /\ SelectedFile(SPEED_CONFIGURATIONS[dr.current_speed_index + 1].suffix)
            \notin DOMAIN disk
     /\ SelectedFile(DEFAULT_SPEED_SUFFIX) \in DOMAIN disk)
    => /\ dr.played.found
       /\ dr.played.path = SelectedFile(DEFAULT_SPEED_SUFFIX)

\* The speed was changed to one whose file is missing, and the default file
\* was played instead
C8_Witness ==
    /\ dr.kind = "sentence"
    /\ dr.pc = "presenting"
    /\ dr.played.req = "speed"
    /\ SPEED_CONFIGURATIONS[dr.current_speed_index + 1].value = SLOWER_KOKORO_SPEED
    /\ SelectedFile(SLOWER_SPEED_SUFFIX) \notin DOMAIN disk
    /\ dr.played.found
    /\ dr.played.path = SelectedFile(DEFAULT_SPEED_SUFFIX)

----------------------------------------------------------------------------
(* Further properties of the drill sessions, checked under SpecDrill *)

\* C11: no drill session plays audio for, or reveals, a row of which any of
\* the three variant files is absent from disk: whenever a row is being
\* presented or is revealed, all three of its files exist.
C11_AllVariantsBeforeUse ==
    dr.pc \in {"presenting", "revealed"} =>
        \A v \in Variants :
            VariantPath(dr.kind, CurrentItem(dr).audio_file_name, v) \in DOMAIN disk

\* C13: a session that ends because the shuffled list is used up, the user
\* not having quit, has put the practice-again question before it ends.
C13_QuestionBeforeSessionEnds ==
    (dr.pc = "ended" /\ dr.result \in {"exhausted", "completed"}) => dr.asked

\* C14: nothing is shuffled, played or revealed unless the store has rows
\* and the user confirmed the start screen; with an empty store, or when the
\* user declines, the session ends at once with nothing presented.
C14_NothingPresentedUnlessReady ==
    /\ (\/ dr.shuffles > 0
        \/ dr.played.req # "none"
        \/ dr.key_on_screen
        \/ dr.pc \in {"top", "skipwait", "playerror", "presenting", "revealed", "again"}
        \/ \E i \in DOMAIN dr.total : dr.total[i] > 0)
       => (dr.ready /\ store[dr.kind] # <<>>)
    /\ (dr.pc # "off" /\ store[dr.kind] = <<>>)
       => (dr.pc = "ended" /\ dr.result = "empty" /\ dr.shuffles = 0 /\ ~dr.ready)
    /\ dr.result = "declined"
       => (dr.pc = "ended" /\ dr.shuffles = 0 /\ ~dr.ready /\ dr.total = <<>>)

\* The user declined the start screen of a drill over two rows
C14_Witness ==
    /\ dr.pc = "ended"
    /\ dr.result = "declined"
    /\ Len(store[dr.kind]) = 2

\* C15: in the word drill, a row whose default-speed file is absent is not
\* played and not revealed, and after the skip prompt the session goes on:
\* with the next row, or, at the end of the list, with the practice-again
\* question; it does not end.
C15_MissingFileSkipsAndGoesOn ==
    /\ [](dr.pc = "skipwait" => (dr.kind = "word" /\ dr.played.req = "none"))
    /\ [][(dr.pc = "skipwait" /\ dr' # dr /\ dr'.result # "interrupted")
            => (dr'.total = dr.total /\ dr'.played.req = "none"
                /\ dr'.pc \in {"top", "again"})]_vars

\* The selected and the default file of the current sentence at speed idx
BothMissing(d, idx) ==
    LET name == d.vocab[d.order[d.current_idx + 1]].audio_file_name
        root == splitext(name).root
        ext == ExtOrMp3(splitext(name).ext)
    IN /\ [dir |-> "audio/pro", file |-> root \o SPEED_CONFIGURATIONS[idx + 1].suffix \o ext]
            \notin DOMAIN disk
       /\ [dir |-> "audio/pro", file |-> root \o DEFAULT_SPEED_SUFFIX \o ext]
            \notin DOMAIN disk

\* C16: in the sentence drill, a play request made while the file of the
\* selected speed and the default file are both missing is reported as
\* failed and leaves the item index as it is: after the first play of an
\* item the continue question is put, in the key loop the item stays; and
\* after a failed play the index changes only by the answer to that
\* question, by the key that follows the reveal, or when a key ends the
\* session.
C16_BothMissingDoesNotAdvance ==
    /\ [][(/\ dr'.kind = "sentence"
           /\ dr.pc \in {"top", "presenting"}
           /\ dr'.pc \in {"presenting", "playerror"}
           /\ dr' # dr
           /\ dr'.played.req # "none"
           /\ BothMissing(dr', dr'.current_speed_index))
          => (/\ ~dr'.played.found
              /\ dr'.current_idx = dr.current_idx
              /\ dr'.order = dr.order
              /\ dr'.pc = IF dr.pc = "top" THEN "playerror" ELSE "presenting")]_vars
    /\ [][(/\ dr.kind = "sentence"
           /\ dr.played.req # "none"
           /\ ~dr.played.found
           /\ dr'.current_idx # dr.current_idx)
          => (dr.pc \in {"playerror", "revealed"} \/ dr'.pc = "ended")]_vars

\* A speed change in the key loop found neither file, and the item stays
C16_Witness ==
    /\ dr.kind = "sentence"
    /\ dr.pc = "presenting"
    /\ dr.played.req = "speed"
    /\ ~dr.played.found
    /\ BothMissing(dr, dr.current_speed_index)

LastSpeed == Len(SPEED_CONFIGURATIONS) - 1

\* A step of the key loop made by `key`
KeyStep(key) ==
    /\ dr.kind = "sentence"
    /\ dr.pc = "presenting"
    /\ dr'.pc = "presenting"
    /\ dr' # dr
    /\ dr'.played.key = key

\* C17: in the key loop of the sentence drill LEFT selects the speed before
\* the active one, the last from the first; RIGHT the one after it, the
\* first from the last; RIGHT pressed after LEFT restores the speed that was
\* active before the LEFT; and the active index is always an index of
\* SPEED_CONFIGURATIONS.
C17_SpeedCyclesWithWrapAround ==
    /\ [](dr.current_speed_index \in 0..LastSpeed)
    /\ [][KeyStep("LEFT") =>
            dr'.current_speed_index =
                IF dr.current_speed_index = 0 THEN LastSpeed
                ELSE dr.current_speed_index - 1]_vars
    /\ [][KeyStep("RIGHT") =>
            dr'.current_speed_index =
                IF dr.current_speed_index = LastSpeed THEN 0
                ELSE dr.current_speed_index + 1]_vars
    /\ [][(KeyStep("RIGHT") /\ dr.played.key = "LEFT") =>
            dr'.current_speed_index = dr.played.from]_vars

\* LEFT was pressed at the first speed and the last one is active
C17_Witness ==
    /\ dr.pc = "presenting"
    /\ dr.played.key = "LEFT"
    /\ dr.played.from = 0
    /\ dr.current_speed_index = LastSpeed

C19_KeyFieldOnlyWhenRevealed ==
    dr.key_on_screen => dr.pc = "revealed"

----------------------------------------------------------------------------
(* Properties of the store functions, checked under SpecStore *)

\* The line of a record in a store file
WrittenLine(kind, rec) ==
    IF kind = "word"
    THEN <<rec.character, rec.pinyin, rec.character_meaning, rec.audio_file_name>>
    ELSE <<rec.sentence_text, rec.audio_file_name>>

\* The header line of a store file
HeaderLine(kind) ==
    IF kind = "word"
    THEN << <<"character">>, <<"pinyin">>, <<"character_meaning">>,
            <<"audio_file_name">> >>
    ELSE << <<"sentence_text">>, <<"audio_file_name">> >>

\* C21: after any appends to a store file that was absent or of size 0 at
\* the start, the file holds nothing, or it holds the header as its first
\* line and no second header, followed by the records appended, in the order
\* of their appends; and no append changes or removes a line that was in the
\* file before it.
C21_OneHeaderThenRecordsInOrder ==
    /\ [](\A k \in Kinds :
            (~st.start[k].exists \/ st.start[k].lines = <<>>) =>
               \/ csv[k].lines = <<>> /\ st.written[k] = <<>>
               \/ /\ csv[k].exists
                  /\ csv[k].lines =
                        <<HeaderLine(k)>> \o [i \in 1..Len(st.written[k]) |->
                                                WrittenLine(k, st.written[k][i])]
                  /\ \A i \in 2..Len(csv[k].lines) : csv[k].lines[i] # HeaderLine(k))
    /\ [][\A k \in Kinds :
            /\ Len(csv'[k].lines) >= Len(csv[k].lines)
            /\ SubSeq(csv'[k].lines, 1, Len(csv[k].lines)) = csv[k].lines]_vars

\* Two records were appended to a store file that was absent at the start,
\* and a save in between failed
C21_Witness ==
    \E k \in Kinds :
        /\ ~st.start[k].exists
        /\ Len(st.written[k]) = 2
        /\ Len(csv[k].lines) = 3
        /\ st.saves > 2

\* The lines of a store file after the header that are not blank
DataLines(file) == SelectSeq(Tail(file.lines), NotBlank)

\* The record a line stands for: the cell of each field, and the absent
\* value for a field the line has no cell for
StandsFor(kind, rec, line) ==
    \A j \in 1..Len(Fields(kind)) :
       rec[Fields(kind)[j]] = IF j <= Len(line) THEN line[j] ELSE NoneVal

\* The statement of C28 as it was made: a load returns no record when the
\* file does not exist, and else one record for each data row
C28_OneRecordPerRowOfAnyFile ==
    st.last = "loaded"
    => LET file == csv[st.kind]
       IN IF ~file.exists \/ file.lines = <<>> THEN st.loaded = <<>>
          ELSE /\ Len(st.loaded) = Len(DataLines(file))
               /\ \A i \in 1..Len(st.loaded) :
                     StandsFor(st.kind, st.loaded[i], DataLines(file)[i])

\* C28: a load returns no record when the file does not exist, and none when
\* the file cannot be read; else it returns one record for each data row (a
\* line after the header that is not blank), in file order, and a row that
\* lacks a field is kept, with the absent value for that field.
C28_OneRecordPerRowOfReadableFile ==
    st.last = "loaded"
    => LET file == csv[st.kind]
       IN IF ~file.exists \/ file.lines = <<>> THEN st.loaded = <<>>
          ELSE IF \E i \in 1..Len(file.lines) : ~Decodable(file.lines[i])
          THEN st.loaded = <<>>
          ELSE /\ Len(st.loaded) = Len(DataLines(file))
               /\ \A i \in 1..Len(st.loaded) :
                     StandsFor(st.kind, st.loaded[i], DataLines(file)[i])

\* A file with a blank line, a row that has no audio_file_name and a row
\* written by save_*_entry was loaded: both rows are among the records
C28_Witness ==
    /\ st.last = "loaded"
    /\ Len(st.loaded) >= 2
    /\ st.written[st.kind] # <<>>
    /\ \E i \in 1..Len(st.loaded) : st.loaded[i].audio_file_name = NoneVal
    /\ st.loaded[Len(st.loaded)] = st.written[st.kind][Len(st.written[st.kind])]
    /\ Len(csv[st.kind].lines) > Len(st.loaded) + 1

----------------------------------------------------------------------------
(* Further properties of the startup sweep, checked under SpecSweep *)

\* The row at position i of the list the sweep loaded lacks its key or its
\* audio_file_name
LacksField(i) ==
    \/ (IF sw.kind = "word" THEN sw.vocab[i].character
        ELSE sw.vocab[i].sentence_text) \in {NoneVal, <<>>}
    \/ sw.vocab[i].audio_file_name \in {NoneVal, <<>>}

\* C22: the step of the sweep that takes a row whose key or audio_file_name
\* is missing or empty adds one to skipped-incomplete and does nothing else:
\* no variant of the row is checked, no synthesis call is made, no file is
\* written, no other counter changes, and the sweep goes on to the next row.
C22_IncompleteEntryOnlyCounted ==
    /\ [][(/\ sw.pc = "entry" /\ sw.ei <= Len(sw.vocab) /\ sw' # sw
           /\ LacksField(sw.ei))
          => (/\ disk' = disk
              /\ csv' = csv
              /\ sw'.counters = [sw.counters EXCEPT !.skipped_incomplete_csv = @ + 1]
              /\ sw'.log = sw.log
              /\ sw'.run_generated = sw.run_generated
              /\ sw'.run_failed = sw.run_failed
              /\ sw'.pc = "entry"
              /\ sw'.ei = sw.ei + 1)]_vars
    /\ [](\A i \in 1..Len(sw.log) : ~LacksField(sw.log[i].ei))

\* The second row of a store lacks a field and was skipped, after a file
\* was generated for the first
C22_Witness ==
    /\ sw.pc = "entry" /\ sw.ei = 3 /\ sw.entry.at = 2
    /\ LacksField(2)
    /\ sw.counters.skipped_incomplete_csv = 1
    /\ sw.counters.individual_files_generated >= 1
    /\ sw.counters.items_had_missing_speeds = 1

\* C25: the sweep leaves the store files as they are: no step of it changes
\* a line of vocabulary.csv or sentences.csv, and when the sweep of a store
\* has ended a load of that store returns the rows the sweep went through,
\* those whose generation failed included.
C25_SweepLeavesStoreUnchanged ==
    /\ [][csv' = csv /\ store' = store]_vars
    /\ [](sw.pc = "done" => load(sw.kind) = sw.vocab)

\* The sweep has ended with a failed generation for a row, and a load still
\* returns that row
C25_Witness ==
    /\ sw.pc = "done"
    /\ \E i \in 1..Len(sw.log) :
          /\ sw.log[i].what = "failed"
          /\ sw.log[i].ei <= Len(load(sw.kind))
          /\ load(sw.kind)[sw.log[i].ei] = sw.vocab[sw.log[i].ei]
          /\ Len(csv[sw.kind].lines) = Len(sw.vocab) + 1

\* No generation of the sweep at hand has failed: every synthesis call
\* returned audio and every write succeeded
NothingFailed(s) == \A i \in 1..Len(s.log) : s.log[i].what # "failed"

\* C29: when the sweep of a store has ended and none of its synthesis calls
\* and writes has failed, the three variant files of every row that has a
\* key and an audio_file_name are on disk, and no failed generation was
\* counted.
C29_AllVariantsAfterCleanSweep ==
    (sw.pc = "done" /\ NothingFailed(sw))
    => /\ sw.counters.individual_files_failed_generation = 0
       /\ \A i \in 1..Len(sw.vocab) :
             (~Falsy(KeyOf(sw.kind, sw.vocab[i])) /\ ~Falsy(sw.vocab[i].audio_file_name))
             => \A v \in Variants :
                   VariantPath(sw.kind, sw.vocab[i].audio_file_name, v) \in DOMAIN disk

\* A sweep without failure has ended: it generated a file for one row, found
\* a file of it present, and went past an incomplete row
C29_Witness ==
    /\ sw.pc = "done" /\ NothingFailed(sw)
    /\ \E i, j \in 1..Len(sw.log) :
          /\ sw.log[i].what = "generated" /\ sw.log[j].what = "present"
          /\ sw.log[i].ei = sw.log[j].ei
    /\ \E i \in 1..Len(sw.vocab) : Falsy(sw.vocab[i].audio_file_name)

\* C30: no step of the sweep removes a file or changes the content of a
\* file that is on disk; the sweep calls the synthesis client, and writes,
\* only for a path it has found absent, also when two rows have the same
\* audio_file_name.
C30_ExistingFilesUntouched ==
    /\ [][\A p \in DOMAIN disk : p \in DOMAIN disk' /\ disk'[p] = disk[p]]_vars
    /\ [][(sw.pc = "variant" /\ (sw'.requests # sw.requests \/ disk' # disk))
            => VariantPath(sw.kind, sw.vocab[sw.ei].audio_file_name, sw.vi)
                  \notin DOMAIN disk]_vars

\* Two rows have the same audio_file_name: the sweep has generated a file
\* for the first row, found it present for the second row, and a file that
\* was on disk at the start is as it was
C30_Witness ==
    /\ sw.pc = "done"
    /\ \E i, j \in 1..Len(sw.log) :
          /\ sw.log[i].ei < sw.log[j].ei /\ sw.log[i].vi = sw.log[j].vi
          /\ sw.vocab[sw.log[i].ei].audio_file_name
                = sw.vocab[sw.log[j].ei].audio_file_name
          /\ sw.log[i].what = "generated" /\ sw.log[j].what = "present"
          /\ disk[VariantPath(sw.kind, sw.vocab[sw.log[i].ei].audio_file_name,
                              sw.log[i].vi)] # Orig
    /\ \E p \in DOMAIN disk : disk[p] = Orig

----------------------------------------------------------------------------
(* The order of presentation, checked under SpecDrill *)

\* The places of a session between its first shuffle and its end
InSession(d) == d.pc \notin {"off", "confirm", "ended"}

\* C26: the order of a drill session is a shuffle made when the start screen
\* is confirmed; while the session runs the order changes only by the
\* accepted practice-again question, which is put only when the list is used
\* up, shuffles the list and puts the position at its start; any other step
\* leaves the order alone and leaves the position alone or moves it on by
\* one, and a speed change or a replay leaves the position alone.
C26_OrderFixedUntilPracticeAgain ==
    /\ [](InSession(dr) => /\ dr.order \in Shuffles(Len(dr.vocab))
                           /\ dr.current_idx \in 0..dr.total_items)
    /\ [](dr.pc = "again" => dr.current_idx = dr.total_items)
    /\ [][(dr.pc = "confirm" /\ InSession(dr')) => dr'.current_idx = 0]_vars
    /\ [][(InSession(dr) /\ InSession(dr'))
            => /\ dr.pc = "again" /\ dr' # dr
                  => /\ dr'.order \in Shuffles(Len(dr.vocab))
                     /\ dr'.current_idx = 0
                     /\ dr'.shuffles = dr.shuffles + 1
               /\ dr.pc # "again"
                  => /\ dr'.order = dr.order
                     /\ dr'.shuffles = dr.shuffles
                     /\ dr'.current_idx \in {dr.current_idx, dr.current_idx + 1}
               /\ dr.pc = "presenting" /\ dr'.pc = "presenting"
                  => dr'.current_idx = dr.current_idx]_vars

\* A list of two rows or more was shuffled a second time, after a playback
\* error in the session, and the session is at the first row again
C26_Witness ==
    /\ dr.pc = "top" /\ dr.shuffles = 2 /\ dr.current_idx = 0
    /\ Len(dr.order) >= 2
    /\ dr.play_failed # {}

----------------------------------------------------------------------------
(* The order of startup, checked under SpecMain *)

\* A menu choice is being read, or a drill or a creation function was called
MenuOrSession ==
    \/ mn.pc \in {"main_menu", "update_menu"}
    \/ dr.pc # "off"
    \/ cr.pc # "menu"

\* C27: when a menu choice is read, and when a drill session or interactive
\* creation has begun, the word sweep and then the sentence sweep have
\* returned, with --update-vocab and without it; and no step of a sweep is
\* taken afterwards.
C27_BothSweepsBeforeMenu ==
    /\ [](MenuOrSession => /\ sw.returned = <<"word", "sentence">>
                           /\ sw.pc = "done")
    /\ [][MenuOrSession => sw' = sw /\ disk' = disk]_vars

\* Started with --update-vocab: the sweeps have generated a file, and a
\* creation function is at its prompt
C27_Witness ==
    /\ mn.update_vocab /\ mn.pc = "update_menu"
    /\ cr.pc = "prompt"
    /\ sw.returned = <<"word", "sentence">>
    /\ sw.run_generated > 0

----------------------------------------------------------------------------
(* The counters of the sweep, checked under SpecSweep *)

\* The places of the log where the sweep found a variant file missing
FoundMissing == {i \in 1..Len(sw.log) : sw.log[i].what # "present"}

\* C31: when the sweep of a store with rows has ended, all-present plus
\* had-missing plus skipped-incomplete is the number of loaded rows, and
\* generated plus failed is the number of variants the sweep found missing;
\* had-missing is the number of rows with a variant found missing, whether
\* its generations succeeded or failed, and skipped-incomplete the number of
\* rows without key or audio_file_name.
C31_CountersConsistent ==
    (sw.pc = "done" /\ sw.vocab # <<>>)
    => /\ sw.counters.items_all_speeds_found + sw.counters.items_had_missing_speeds
            + sw.counters.skipped_incomplete_csv = Len(sw.vocab)
       /\ sw.counters.individual_files_generated
            + sw.counters.individual_files_failed_generation
            = Cardinality(FoundMissing)
       /\ sw.counters.individual_files_failed_generation
            = Cardinality({i \in FoundMissing : sw.log[i].what = "failed"})
       /\ sw.counters.items_had_missing_speeds
            = Cardinality({sw.log[i].ei : i \in FoundMissing})
       /\ sw.counters.skipped_incomplete_csv
            = Len(sw.vocab) - Cardinality(CompleteRows)

\* A sweep has ended in which both missing variants of a row failed and none
\* was generated for it, and which skipped an incomplete row
C31_Witness ==
    /\ sw.pc = "done" /\ sw.vocab # <<>>
    /\ sw.counters.skipped_incomplete_csv >= 1
    /\ \E e \in 1..Len(sw.vocab) :
          /\ Cardinality({i \in FoundMissing : sw.log[i].ei = e}) = 2
          /\ \A i \in FoundMissing : sw.log[i].ei = e => sw.log[i].what = "failed"
    /\ sw.counters.items_had_missing_speeds >= 1

----------------------------------------------------------------------------
(* Creation and the store file, checked under SpecCreate *)

\* The latest entry was reported as added and its three files are on disk
AddedAndKept ==
    /\ cr.pc = "next" /\ cr.last = "added"
    /\ \A v \in Variants : VariantPath(cr.kind, cr.name, v) \in DOMAIN disk

\* C32: when creation has reported an entry as added and its three variant
\* files are on disk, the store file holds the record of the entry.
C32_AddedEntryIsInStoreFile ==
    AddedAndKept
    => \E i \in 1..Len(load(cr.kind)) :
          load(cr.kind)[i] = NewRecord(cr.kind, cr.key, cr.pinyin, cr.meaning, cr.name)

\* The variant files of the rows that were in the store before the attempt
FilesOfExisting == UNION {RowFiles(cr.kind, cr.existing[i]) : i \in 1..Len(cr.existing)}

\* C33: an attempt that fails leaves the store file as it is, and when its
\* rollback has run every variant file of an existing row that was on disk
\* before the attempt is on disk with the content it had.
C33_FailedAttemptTouchesOnlyItsFiles ==
    [][(cr.pc = "finish" /\ ~cr.ok /\ cr'.pc = "next")
         => /\ csv' = csv
            /\ \A p \in FilesOfExisting \cap DOMAIN cr.before :
                  p \in DOMAIN disk' /\ disk'[p] = cr.before[p]]_vars

\* The file at the path of variant v of the entry at hand is as it was when
\* the generation loop was entered
Unwritten(v) ==
    LET p == VariantPath(cr.kind, cr.name, v)
    IN IF p \in DOMAIN cr.before THEN p \in DOMAIN disk /\ disk[p] = cr.before[p]
       ELSE p \notin DOMAIN disk

\* C34: creation takes the variants in the order default, slow, extra-slow:
\* when the synthesis call of a variant is due, one request was made for each
\* earlier variant and none for it or a later one; when the loop was left
\* at a failed variant, no request was made and no file written for a later
\* variant, and the rollback leads to the next entry of the line with the
\* entries left on the line as they were.
C34_StopsAtFirstFailedVariant ==
    /\ [](<<speeds_to_generate[1].suffix, speeds_to_generate[2].suffix,
            speeds_to_generate[3].suffix>>
             = <<DEFAULT_SPEED_SUFFIX, SLOWER_SPEED_SUFFIX, EXTRA_SLOW_SPEED_SUFFIX>>)
    /\ [](cr.pc = "synth"
            => \A v \in Variants : cr.calls[v] = IF v < cr.vi THEN 1 ELSE 0)
    /\ [](cr.pc \in {"synth", "save"} => cr.ok)
    /\ []((cr.pc = "finish" /\ ~cr.ok)
            => \A v \in Variants : v > cr.vi => cr.calls[v] = 0 /\ Unwritten(v))
    /\ [][(cr.pc = "finish" /\ ~cr.ok)
            => /\ cr'.pc = "next" /\ cr'.left = cr.left
               /\ \A v \in Variants :
                     v > cr.vi => VariantPath(cr.kind, cr.name, v) \notin DOMAIN disk'
                                  \/ VariantPath(cr.kind, cr.name, v) \in DOMAIN cr.before]_vars
    /\ []((cr.pc = "next" /\ cr.left > 0) => ENABLED BeginEntry)

\* The first of two entries on a line failed at the write of its second
\* variant; its third variant was not written, the rollback has run and the
\* second entry of the line is due
C34_Witness ==
    /\ cr.pc = "next" /\ cr.left = 1 /\ cr.typed = 1
    /\ cr.last = "write_failed" /\ cr.vi = 2
    /\ VariantPath(cr.kind, cr.name, 2) \in DOMAIN disk
    /\ VariantPath(cr.kind, cr.name, 3) \notin DOMAIN disk

\* C35: a response without bytes counts as a failed generation, and a
\* variant file that creation has written is never empty: every file on
\* disk that was not there at the start holds the audio of a response.
C35_NoEmptyVariantFile ==
    \A p \in DOMAIN disk : disk[p] = Orig \/ disk[p].tag = "audio"

----------------------------------------------------------------------------
(* Speed and position in the drills, checked under SpecDrill *)

\* C36: a session starts at the speed whose value is the default speed, and
\* while it runs the speed changes only in the sentence drill, while
\* listening, by the key LEFT or RIGHT, to the speed before or after it;
\* going on to the next row, the reveal, a replay, a failed playback and a
\* new shuffle leave the speed as it is.
C36_SpeedChangesOnlyByLeftRight ==
    /\ [](SPEED_CONFIGURATIONS[DefaultSpeedIndex + 1].value = DEFAULT_KOKORO_SPEED)
    /\ [][(dr.pc = "confirm" /\ InSession(dr'))
            => dr'.current_speed_index = DefaultSpeedIndex]_vars
    /\ [][(InSession(dr) /\ InSession(dr')
             /\ dr'.current_speed_index # dr.current_speed_index)
            => /\ dr.kind = "sentence"
               /\ dr.pc = "presenting" /\ dr'.pc = "presenting"
               /\ dr'.current_idx = dr.current_idx
               /\ \/ /\ dr'.played.key = "LEFT"
                     /\ dr'.current_speed_index = SpeedLeft(dr.current_speed_index)
                  \/ /\ dr'.played.key = "RIGHT"
                     /\ dr'.current_speed_index = SpeedRight(dr.current_speed_index)]_vars

\* The sentence drill was shuffled a second time, after a failed playback,
\* and is at the first row at a speed other than the default
C36_Witness ==
    /\ dr.kind = "sentence" /\ dr.pc = "top" /\ dr.shuffles = 2
    /\ dr.current_idx = 0
    /\ dr.current_speed_index # DefaultSpeedIndex
    /\ dr.play_failed # {}

\* The places of a session at which a row of the list is being handled
AtItem(d) == d.pc \in {"presenting", "revealed", "skipwait", "playerror"}

\* C37: while a session runs the position is between 0 and the number N of
\* loaded rows; a row is read only at a position below N, and the
\* practice-again question is put at position N; a step that leaves a row
\* (presented or skipped) moves the position on by one, a step that stays
\* with the row leaves it, and the position goes back, to 0, only by the
\* accepted practice-again question.
C37_PositionWithinBounds ==
    /\ [](InSession(dr) => /\ dr.total_items = Len(dr.vocab)
                           /\ dr.current_idx \in 0..dr.total_items)
    /\ []((dr.pc = "top" \/ AtItem(dr)) => dr.current_idx < dr.total_items)
    /\ [](dr.pc = "again" => dr.current_idx = dr.total_items)
    /\ [][(InSession(dr) /\ InSession(dr') /\ dr.pc # "again")
            => IF AtItem(dr') THEN dr'.current_idx = dr.current_idx
               ELSE dr'.current_idx = dr.current_idx + 1]_vars
    /\ [][(InSession(dr) /\ InSession(dr') /\ dr'.current_idx < dr.current_idx)
            => dr.pc = "again" /\ dr'.current_idx = 0
               /\ dr'.shuffles = dr.shuffles + 1]_vars

\* A list of two rows is used up: one row was skipped, the other one was
\* presented, and the practice-again question is put
C37_Witness ==
    /\ dr.pc = "again" /\ dr.total_items = 2 /\ dr.current_idx = 2
    /\ \E i, j \in 1..Len(dr.shown) : dr.shown[i] = 0 /\ dr.shown[j] = 1

\* C38: the continue question is put when the first play of a row failed
\* (playsound raised, or the sentence drill found no file to play).  When
\* the user declines, the session ends at that step: no row is presented
\* any more and the practice-again question is not put.  When the user
\* accepts, the row is left without being presented or revealed and the
\* position moves on by one, to the next row of the same order (when the
\* row was the last one, the list is used up).
C38_PlayErrorAnswer ==
    /\ [](dr.pc = "playerror"
            => /\ dr.played.req = "initial" /\ ~dr.asked
               /\ \/ ~dr.played.found
                  \/ dr.order[dr.current_idx + 1] \in dr.play_failed)
    /\ [][(dr.pc = "playerror" /\ dr' # dr)
            => /\ dr'.total = dr.total /\ dr'.shuffles = dr.shuffles /\ ~dr'.asked
               /\ dr'.pc \in {"top", "ended"}
               /\ dr'.pc = "top"
                    => /\ dr'.current_idx = dr.current_idx + 1
                       /\ dr'.current_idx < dr.total_items
                       /\ dr'.order = dr.order /\ dr'.shown = dr.shown
               /\ dr'.pc = "ended"
                    => \/ dr'.result \in {"stopped", "interrupted"}
                       \/ /\ dr'.result = "exhausted"
                          /\ dr.current_idx + 1 = dr.total_items]_vars

\* The first play of the first of two rows raised, the user accepted, and
\* the session is at the second row with no row presented
C38_Witness ==
    /\ dr.pc = "top" /\ dr.current_idx = 1 /\ dr.total_items = 2
    /\ dr.shuffles = 1
    /\ dr.play_failed = {dr.order[1]}
    /\ \A i \in 1..Len(dr.total) : dr.total[i] = 0

============================================================================
